---- MODULE Spec2Model ----
(***************************************************************************)
(* A model of the document segmentation and context-windowing pipeline of  *)
(* GeoAIHub-extraction (src/scripts).  Each component is a state machine    *)
(* with its own specification over the variables it owns:                  *)
(*   SpecChunk    split_text_into_balanced_parts (text_preparation.py)     *)
(*   SpecChunkFair  the same, with every enabled step eventually taken     *)
(*   SpecExtract  extract_text (text_extractor.py)                         *)
(*   SpecPage     process_page (text_extractor.py)                         *)
(*   SpecLoc      extract_locations (main.py)                              *)
(*   SpecCtx      KeywordContextFinder (text_preparation.py)               *)
(*   SpecAbs      abstract_extractor (abstract_extractor.py)               *)
(*   SpecPipe     extract_text, then split_text_into_parts, run twice      *)
(*   SpecTbl      extract_tables (table_extractor.py)                      *)
(*   SpecGeo      geocode_location (services/geocoding.py)                 *)
(* A text is a sequence of atoms (maximal runs of word characters, or one  *)
(* separator character); a token sequence is known by its length, and a    *)
(* chunk by the half-open token range [start, end) it decodes.             *)
(***************************************************************************)
EXTENDS Integers, Sequences, FiniteSets, TLC

VARIABLES
    \* split_text_into_balanced_parts
    max_tokens_per_part, overlap_num, total_tokens, chunk_pc, overlap_tokens,
    num_parts, balanced_tokens_per_part, parts, start_idx, part_i, chunk_result,
    \* extract_text
    doc, ext_pc, page_i, treated_text, processed, checked, ending_page, ext_result,
    \* process_page
    page_height, page_width, page_text, extracted_tables, page_pc, word_i,
    return_text, page_result,
    \* extract_locations
    prepare_outcome, llm_outcome, freq_outcome, loc_pc, loc_part, loc_locals,
    loc_result,
    \* KeywordContextFinder
    text_length, matches, window, self_window, ctx_pc, match_i, current, contexts,
    ctx_result,
    \* abstract_extractor
    abs_page_text, keyword_i, abstract_start_index, abs_pc, abs_result,
    \* the pipeline: os.environ, the .env file, and the locals of each run
    environ, dotenv, environ0, pipe_doc, pipe_pc, pipe_text,
    append_abstract_to_context, pipe_max, pipe_parts, pipe_result, overlapped,
    \* extract_tables
    tbl_spans, tbl_drawings, tbl_pc, table_coordinates, line_coordinates,
    grouped_elements, tbl_result,
    \* geocode_location
    geo_location, geo_pc, coordinates, contacted, patched, geo_result

chunkVars == <<max_tokens_per_part, overlap_num, total_tokens, chunk_pc,
               overlap_tokens, num_parts, balanced_tokens_per_part, parts,
               start_idx, part_i, chunk_result>>
extractVars == <<doc, ext_pc, page_i, treated_text, processed, checked,
                 ending_page, ext_result>>
pageVars == <<page_height, page_width, page_text, extracted_tables, page_pc,
              word_i, return_text, page_result>>
locVars == <<prepare_outcome, llm_outcome, freq_outcome, loc_pc, loc_part,
             loc_locals, loc_result>>
ctxVars == <<text_length, matches, window, self_window, ctx_pc, match_i,
             current, contexts, ctx_result>>
absVars == <<abs_page_text, keyword_i, abstract_start_index, abs_pc, abs_result>>
pipeVars == <<environ, dotenv, environ0, pipe_doc, pipe_pc, pipe_text,
              append_abstract_to_context, pipe_max, pipe_parts, pipe_result,
              overlapped>>
tblVars == <<tbl_spans, tbl_drawings, tbl_pc, table_coordinates, line_coordinates,
             grouped_elements, tbl_result>>
geoVars == <<geo_location, geo_pc, coordinates, contacted, patched, geo_result>>
vars == <<chunkVars, extractVars, pageVars, locVars, ctxVars, absVars, pipeVars,
          tblVars, geoVars>>

Max(a, b) == IF a >= b THEN a ELSE b
Min(a, b) == IF a <= b THEN a ELSE b

(***************************************************************************)
(* Bounds of the model.                                                    *)
(***************************************************************************)
\* MAX_TOKENS_PER_PART ranges over -1 .. MaxTokensBound
MaxTokensBound == 5
\* the text has 0 .. MaxTotalTokens tokens
MaxTotalTokens == 14
\* OVERLAP_PERCENTAGE ranges over the fractions -1/OverlapDen .. (OverlapDen+1)/OverlapDen
OverlapDen == 4

(***************************************************************************)
(* A component that a specification does not run stays idle.                *)
(***************************************************************************)
ExtractIdle ==
    /\ doc = <<>> /\ ext_pc = "idle" /\ page_i = 0 /\ treated_text = <<>>
    /\ processed = {} /\ checked = {} /\ ending_page = -1
    /\ ext_result = [kind |-> "none"]

PageIdle ==
    /\ page_height = 0 /\ page_width = 0 /\ page_text = <<>>
    /\ extracted_tables = [kind |-> "None"] /\ page_pc = "idle" /\ word_i = 0
    /\ return_text = <<>> /\ page_result = "none"

LocIdle ==
    /\ prepare_outcome = <<>> /\ llm_outcome = <<>> /\ freq_outcome = <<>>
    /\ loc_pc = "idle" /\ loc_part = 0 /\ loc_locals = <<>>
    /\ loc_result = [kind |-> "none"]

CtxIdle ==
    /\ text_length = 0 /\ matches = <<>> /\ window = [kind |-> "None", value |-> 0]
    /\ self_window = 0 /\ ctx_pc = "idle" /\ match_i = 0 /\ current = <<>>
    /\ contexts = <<>> /\ ctx_result = <<>>

AbsIdle ==
    /\ abs_page_text = <<>> /\ keyword_i = 0 /\ abstract_start_index = -1
    /\ abs_pc = "idle" /\ abs_result = [kind |-> "none", text |-> <<>>]

PipeIdle ==
    /\ environ = <<>> /\ dotenv = <<>> /\ environ0 = <<>> /\ pipe_doc = <<>>
    /\ pipe_pc = <<>> /\ pipe_text = <<>> /\ append_abstract_to_context = <<>>
    /\ pipe_max = <<>> /\ pipe_parts = <<>> /\ pipe_result = <<>>
    /\ overlapped = FALSE

TblIdle ==
    /\ tbl_spans = <<>> /\ tbl_drawings = <<>> /\ tbl_pc = "idle"
    /\ table_coordinates = <<>>
    /\ line_coordinates = [vertical |-> FALSE, lines |-> <<>>]
    /\ grouped_elements = <<>> /\ tbl_result = [none |-> TRUE, items |-> <<>>]

GeoIdle ==
    /\ geo_location = <<>> /\ geo_pc = "idle" /\ coordinates = <<>>
    /\ contacted = <<>> /\ patched = <<>>
    /\ geo_result = [kind |-> "none", value |-> "None"]

(***************************************************************************)
(* split_text_into_balanced_parts                                          *)
(***************************************************************************)
ChunkIdle ==
    /\ max_tokens_per_part = 0 /\ overlap_num = 0 /\ total_tokens = 0
    /\ chunk_pc = "idle" /\ overlap_tokens = 0 /\ num_parts = 0
    /\ balanced_tokens_per_part = 0 /\ parts = <<>> /\ start_idx = 0
    /\ part_i = 0 /\ chunk_result = "none"

ChunkInit ==
    /\ max_tokens_per_part \in -1 .. MaxTokensBound
    /\ overlap_num \in -1 .. OverlapDen + 1
    /\ total_tokens \in 0 .. MaxTotalTokens
    /\ chunk_pc = "start" /\ overlap_tokens = 0 /\ num_parts = 0
    /\ balanced_tokens_per_part = 0 /\ parts = <<>> /\ start_idx = 0
    /\ part_i = 0 /\ chunk_result = "none"

\* 0 <= overlap_percentage < 1
OverlapInRange(num) == 0 <= num /\ num < OverlapDen

\* int(max_tokens_per_part * overlap_percentage)
OverlapTokens(m, num) == (m * num) \div OverlapDen

NumPartsFloor(total, m, ov) == (total - ov) \div (m - ov)

\* ceiling division of (total - overlap) by (max - overlap)
NumParts(total, m, ov) == (total - ov + (m - ov) - 1) \div (m - ov)

BalancedTokensCeil(total, n, ov) == (total + (n - 1) * ov + n - 1) \div n

BalancedTokens(total, n, ov) == (total + (n - 1) * ov) \div n

EndIdxNoTail(i, n, start, bal, total) == Min(start + bal, total)

\* end_idx of part i (0-based): the last part takes all remaining tokens
EndIdx(i, n, start, bal, total) ==
    IF i = n - 1 THEN total ELSE Min(start + bal, total)

NextStartNoOverlap(end, ov) == Max(0, end)

\* start_idx of the next part
NextStart(end, ov) == Max(0, end - ov)

\* the other components do not move while this one runs
ChunkOnly == UNCHANGED <<extractVars, pageVars, locVars, ctxVars, absVars, pipeVars,
    tblVars, geoVars>>

\* if not text: return []
ReturnEmpty ==
    /\ chunk_pc = "start" /\ total_tokens = 0
    /\ chunk_pc' = "done" /\ chunk_result' = "returned" /\ parts' = <<>>
    /\ UNCHANGED <<max_tokens_per_part, overlap_num, total_tokens, overlap_tokens,
                   num_parts, balanced_tokens_per_part, start_idx, part_i>>
    /\ ChunkOnly

RaiseMaxTokens ==
    /\ chunk_pc = "start" /\ total_tokens # 0
    /\ max_tokens_per_part <= 0
    /\ chunk_pc' = "done" /\ chunk_result' = "ValueError"
    /\ UNCHANGED <<max_tokens_per_part, overlap_num, total_tokens, overlap_tokens,
                   num_parts, balanced_tokens_per_part, parts, start_idx, part_i>>
    /\ ChunkOnly

RaiseOverlap ==
    /\ chunk_pc = "start" /\ total_tokens # 0
    /\ max_tokens_per_part > 0
    /\ ~OverlapInRange(overlap_num)
    /\ chunk_pc' = "done" /\ chunk_result' = "ValueError"
    /\ UNCHANGED <<max_tokens_per_part, overlap_num, total_tokens, overlap_tokens,
                   num_parts, balanced_tokens_per_part, parts, start_idx, part_i>>
    /\ ChunkOnly

\* if total_tokens <= max_tokens_per_part: return [text]
ReturnWhole ==
    /\ chunk_pc = "start" /\ total_tokens # 0
    /\ max_tokens_per_part > 0 /\ OverlapInRange(overlap_num)
    /\ total_tokens <= max_tokens_per_part
    /\ parts' = <<[start |-> 0, end |-> total_tokens]>>
    /\ chunk_pc' = "done" /\ chunk_result' = "returned"
    /\ UNCHANGED <<max_tokens_per_part, overlap_num, total_tokens, overlap_tokens,
                   num_parts, balanced_tokens_per_part, start_idx, part_i>>
    /\ ChunkOnly

PlanParts ==
    /\ chunk_pc = "start" /\ total_tokens # 0
    /\ max_tokens_per_part > 0 /\ OverlapInRange(overlap_num)
    /\ total_tokens > max_tokens_per_part
    /\ LET ov == OverlapTokens(max_tokens_per_part, overlap_num)
           n == NumParts(total_tokens, max_tokens_per_part, ov)
       IN /\ overlap_tokens' = ov
          /\ num_parts' = n
          /\ balanced_tokens_per_part' = BalancedTokens(total_tokens, n, ov)
          /\ chunk_pc' = IF n > 0 THEN "loop" ELSE "return"
    /\ parts' = <<>> /\ start_idx' = 0 /\ part_i' = 0
    /\ UNCHANGED <<max_tokens_per_part, overlap_num, total_tokens, chunk_result>>
    /\ ChunkOnly

\* one iteration of "for i in range(num_parts)"
LoopBody ==
    /\ chunk_pc = "loop" /\ part_i < num_parts
    /\ LET end_idx == EndIdx(part_i, num_parts, start_idx,
                             balanced_tokens_per_part, total_tokens)
       IN /\ parts' = Append(parts, [start |-> start_idx, end |-> end_idx])
          /\ start_idx' = NextStart(end_idx, overlap_tokens)
          \* break when all tokens are used; otherwise the range may be exhausted
          /\ IF end_idx >= total_tokens
                THEN chunk_pc' = "return" /\ part_i' = part_i
                ELSE /\ part_i' = part_i + 1
                     /\ chunk_pc' = IF part_i + 1 < num_parts THEN "loop" ELSE "return"
    /\ UNCHANGED <<max_tokens_per_part, overlap_num, total_tokens, overlap_tokens,
                   num_parts, balanced_tokens_per_part, chunk_result>>
    /\ ChunkOnly

ReturnParts ==
    /\ chunk_pc = "return"
    /\ chunk_pc' = "done" /\ chunk_result' = "returned"
    /\ UNCHANGED <<max_tokens_per_part, overlap_num, total_tokens, overlap_tokens,
                   num_parts, balanced_tokens_per_part, parts, start_idx, part_i>>
    /\ ChunkOnly

ChunkNext ==
    \/ ReturnEmpty
    \/ RaiseMaxTokens
    \/ RaiseOverlap
    \/ ReturnWhole
    \/ PlanParts
    \/ LoopBody
    \/ ReturnParts

SpecChunkInit == ChunkInit /\ ExtractIdle /\ PageIdle /\ LocIdle /\ CtxIdle /\ AbsIdle
    /\ PipeIdle /\ TblIdle /\ GeoIdle
SpecChunk == SpecChunkInit /\ [][ChunkNext]_vars

\* number of tokens a chunk spans
PartLen(p) == p.end - p.start

\* number of tokens two chunks' ranges have in common
Shared(p, q) == Max(0, Min(p.end, q.end) - Max(p.start, q.start))

ValidConfig == max_tokens_per_part > 0 /\ OverlapInRange(overlap_num)

(* C1: for a non-empty text and a valid configuration, every returned chunk,
   the last one included, spans at most MAX_TOKENS_PER_PART tokens. *)
C1_ChunkBound ==
    (chunk_result = "returned" /\ total_tokens > 0 /\ ValidConfig)
        => \A k \in DOMAIN parts : PartLen(parts[k]) <= max_tokens_per_part

(* The bound does hold for every chunk but the last. *)
C1_ChunkBoundButLast ==
    (chunk_result = "returned" /\ total_tokens > 0 /\ ValidConfig)
        => \A k \in DOMAIN parts :
              k < Len(parts) => PartLen(parts[k]) <= max_tokens_per_part

(* C2: for a non-empty text and valid parameters the chunks' token ranges cover
   the token sequence without a gap: the first chunk starts at token 0, each
   later chunk starts at or before the end of the previous one, and the last
   chunk ends at the last token. *)
C2_Coverage ==
    (chunk_result = "returned" /\ total_tokens > 0 /\ ValidConfig)
        => /\ Len(parts) >= 1
           /\ parts[1].start = 0
           /\ \A k \in DOMAIN parts : parts[k].start < parts[k].end
           /\ \A k \in 2 .. Len(parts) : parts[k].start <= parts[k - 1].end
           /\ parts[Len(parts)].end = total_tokens

C2_Witness ==
    /\ chunk_result = "returned" /\ Len(parts) >= 3
    /\ parts[Len(parts)].end = total_tokens
    /\ PartLen(parts[Len(parts)]) > balanced_tokens_per_part

(* C3: when more than one chunk is returned, every two consecutive chunks
   before the final boundary share exactly
   floor(MAX_TOKENS_PER_PART * OVERLAP_PERCENTAGE) tokens. *)
C3_Overlap ==
    (chunk_result = "returned" /\ Len(parts) > 1)
        => \A k \in 1 .. Len(parts) - 2 :
              Shared(parts[k], parts[k + 1])
                  = (max_tokens_per_part * overlap_num) \div OverlapDen

C3_Witness ==
    /\ chunk_result = "returned" /\ Len(parts) >= 3
    /\ (max_tokens_per_part * overlap_num) \div OverlapDen >= 1
    /\ Shared(parts[1], parts[2]) >= 1

(* C4: whatever the input text, a MAX_TOKENS_PER_PART that is not positive or
   an OVERLAP_PERCENTAGE outside [0,1) ends the call with a ValueError and no
   chunk list is returned. *)
C4_ConfigErrorReported ==
    (chunk_pc = "done" /\ ~ValidConfig) => chunk_result = "ValueError"

(* For a non-empty text the configuration error is reported. *)
C4_ConfigErrorNonEmpty ==
    (chunk_pc = "done" /\ ~ValidConfig /\ total_tokens > 0)
        => chunk_result = "ValueError"

\* the text needs more than one chunk
NeedsChunks == total_tokens > max_tokens_per_part

(* C26: when the text needs more than one chunk, every chunk except the last
   spans exactly floor((total + (parts - 1) * overlap) / parts) tokens, that
   size is at most MAX_TOKENS_PER_PART, and the last chunk runs from its
   start to the end of the token sequence. *)
C26_BalancedSizes ==
    (chunk_result = "returned" /\ total_tokens > 0 /\ ValidConfig /\ NeedsChunks)
        => LET balanced == (total_tokens + (num_parts - 1) * overlap_tokens)
                               \div num_parts
           IN  /\ Len(parts) > 1
               /\ \A k \in 1 .. Len(parts) - 1 : PartLen(parts[k]) = balanced
               /\ balanced <= max_tokens_per_part
               /\ parts[Len(parts)].end = total_tokens
               /\ PartLen(parts[Len(parts)]) >= balanced

\* three chunks with an overlap, the last one longer than the others
C26_Witness ==
    /\ chunk_result = "returned" /\ NeedsChunks /\ Len(parts) = 3
    /\ overlap_tokens >= 1
    /\ PartLen(parts[1]) = balanced_tokens_per_part
    /\ PartLen(parts[3]) > PartLen(parts[1])

\* the least n with n * b >= a, for b >= 1
Ceiling(a, b) == CHOOSE n \in 0 .. Max(a, 0) : n * b >= a /\ (n - 1) * b < a

\* the chunks the loop has to produce and the progress it makes
ChunkCount ==
    IF ~NeedsChunks THEN parts = <<[start |-> 0, end |-> total_tokens]>>
    ELSE LET overlap == (max_tokens_per_part * overlap_num) \div OverlapDen
             step == max_tokens_per_part - overlap
         IN  /\ step >= 1
             /\ num_parts = Ceiling(total_tokens - overlap, step)
             /\ Len(parts) = num_parts
             /\ balanced_tokens_per_part > overlap
             /\ \A k \in 1 .. Len(parts) - 1 :
                   /\ parts[k + 1].start > parts[k].start
                   /\ parts[k].end < total_tokens

\* the interpreter runs the function's statements one after the other
SpecChunkFair == SpecChunk /\ WF_vars(ChunkNext)

(* C28: for every non-empty text and valid parameters the call terminates:
   with one chunk, the whole text, when total <= MAX_TOKENS_PER_PART, and
   otherwise with exactly ceil((total - overlap) / step) chunks, where
   step >= 1, the balanced size is greater than the overlap, each chunk
   starts after the one before, and no chunk before the last reaches the end
   of the token sequence. *)
C28_Terminates ==
    (chunk_pc = "start" /\ total_tokens > 0 /\ ValidConfig)
        ~> (chunk_pc = "done" /\ chunk_result = "returned" /\ ChunkCount)

\* the loop ran to its last iteration and produced four chunks
C28_Witness ==
    /\ chunk_pc = "done" /\ chunk_result = "returned" /\ NeedsChunks
    /\ num_parts = 4 /\ Len(parts) = 4 /\ part_i = num_parts - 1

(***************************************************************************)
(* Texts.  A text is a sequence of atoms: an atom is a maximal run of word  *)
(* characters or a single separator character.  A word of a page is a text  *)
(* without a space.                                                         *)
(***************************************************************************)
wBasin == <<"basin">>
wRefs == <<"References">>
wDecl == <<"Declarations", ":">>
wCite == <<"(", "2001", ")">>
wHyph == <<"geo", "-">>
wAuthor == <<"Author">>
wContribution == <<"contribution">>
wContributions == <<"contributions">>

Separators == {" ", ":", "-", "(", ")"}

Atoms == {"basin", "References", "Declarations", "2001", "geo", "Author",
          "contribution", "contributions", "Abs"} \cup Separators

IsWordAtom(a) == a \notin Separators

\* str.lower() on one atom
Lower(a) ==
    CASE a = "References" -> "references"
      [] a = "Declarations" -> "declarations"
      [] a = "Author" -> "author"
      [] a = "Abs" -> "abs"
      [] OTHER -> a

LowerText(t) == [k \in DOMAIN t |-> Lower(t[k])]

\* \d{4} matches inside the atom
HasYear(a) == a = "2001"

RECURSIVE JoinTexts(_)
\* " ".join(texts)
JoinTexts(ts) ==
    IF ts = <<>> THEN <<>>
    ELSE IF Len(ts) = 1 THEN ts[1]
    ELSE ts[1] \o <<" ">> \o JoinTexts(Tail(ts))

\* ending_keywords of check_ending_keywords, as lower-case texts
EndingKeywords ==
    { <<"acknowledgments">>, <<"author", " ", "contribution">>,
      <<"declarations">>, <<"references">> }

\* the pattern \b(?:kw)\b matches the lower-case text t at atom i
KeywordMatchesAt(t, i, kw) ==
    /\ i + Len(kw) - 1 <= Len(t)
    /\ SubSeq(t, i, i + Len(kw) - 1) = kw
    /\ \/ i = 1
       \/ IsWordAtom(t[i]) # IsWordAtom(t[i - 1])
    /\ \/ i + Len(kw) - 1 = Len(t)
       \/ IsWordAtom(t[i + Len(kw) - 1]) # IsWordAtom(t[i + Len(kw)])

RECURSIVE SearchFrom(_, _)
\* re.search scanning from atom i: the end of the leftmost match, or 0
SearchFrom(t, i) ==
    IF i > Len(t) THEN 0
    ELSE IF \E kw \in EndingKeywords : KeywordMatchesAt(t, i, kw)
         THEN LET kw == CHOOSE k \in EndingKeywords : KeywordMatchesAt(t, i, k)
              IN i + Len(kw) - 1
         ELSE SearchFrom(t, i + 1)

CheckEndingKeywordsWholePage(text) ==
    LET joined == JoinTexts(text)
        stop == SearchFrom(LowerText(joined), 1)
    IN IF stop > 0
       THEN [none |-> FALSE, text |-> joined]
       ELSE [none |-> TRUE, text |-> <<>>]

\* check_ending_keywords(text): the joined text cut at the end of the first
\* match, or None
CheckEndingKeywords(text) ==
    LET joined == JoinTexts(text)
        stop == SearchFrom(LowerText(joined), 1)
    IN IF stop > 0
       THEN [none |-> FALSE, text |-> SubSeq(joined, 1, stop)]
       ELSE [none |-> TRUE, text |-> <<>>]

RECURSIVE StripHyphens(_)
\* re.sub(r"- ", "", text)
StripHyphens(t) ==
    IF t = <<>> THEN <<>>
    ELSE IF Len(t) >= 2 /\ t[1] = "-" /\ t[2] = " "
         THEN StripHyphens(SubSeq(t, 3, Len(t)))
         ELSE <<t[1]>> \o StripHyphens(Tail(t))

\* the index of the ")" closing a citation opened at atom 1 of t, or 0:
\* \([^()]*\d{4}[^()]*\)
CitationEnd(t) ==
    IF t = <<>> \/ t[1] # "(" THEN 0
    ELSE LET parens == {k \in 2 .. Len(t) : t[k] \in {"(", ")"}}
         IN IF parens = {} THEN 0
            ELSE LET j == CHOOSE k \in parens : \A m \in parens : k <= m
                 IN IF t[j] = ")" /\ \E k \in 2 .. j - 1 : HasYear(t[k])
                    THEN j ELSE 0

RECURSIVE StripCitations(_)
\* re.sub(r"\([^()]*\d{4}[^()]*\)", "", text)
StripCitations(t) ==
    IF t = <<>> THEN <<>>
    ELSE IF CitationEnd(t) > 0
         THEN StripCitations(SubSeq(t, CitationEnd(t) + 1, Len(t)))
         ELSE <<t[1]>> \o StripCitations(Tail(t))

\* remove_references([text]): a list holding the cleaned text
RemoveReferences(text) ==
    IF text = <<>> THEN << <<>> >>
    ELSE << StripCitations(StripHyphens(text[1])) >>

(***************************************************************************)
(* extract_text                                                            *)
(***************************************************************************)
\* documents of 0 .. MaxPages pages take every combination of page kinds
MaxPages == 4
\* page counts of the long documents, which hold one page that is not plain
LongDocPages == {20}

\* what process_page yields for a body page: a word list, or an exception
PageWordLists ==
    { <<>>,
      <<wBasin>>,
      <<wCite>>,
      <<wHyph, wBasin, wCite>>,
      <<wBasin, wDecl, wCite, wRefs, wBasin>>,
      <<wCite, wRefs, wBasin>>,
      <<wAuthor, wContributions>>,
      <<wAuthor, wContribution, wBasin>> }

PageKinds ==
    {[raises |-> FALSE, words |-> w] : w \in PageWordLists}
        \cup {[raises |-> TRUE, words |-> <<>>]}

PlainPage == [raises |-> FALSE, words |-> <<wBasin>>]

AbstractTexts == {<<>>, <<"Abs">>}

\* pages[k] is the page of index k; page 0 holds the abstract only
ShortDocs ==
    UNION {
        {[opens |-> TRUE, num_pages |-> n, abstract |-> a, pages |-> ps] :
            a \in AbstractTexts, ps \in [1 .. n - 1 -> PageKinds]}
        : n \in 1 .. MaxPages }

LongDocs ==
    UNION {
        {[opens |-> TRUE, num_pages |-> n, abstract |-> <<"Abs">>,
          pages |-> [k \in 1 .. n - 1 |-> IF k = s THEN kind ELSE PlainPage]] :
            s \in 1 .. n - 1, kind \in PageKinds}
        : n \in LongDocPages }

Docs ==
    ShortDocs \cup LongDocs
        \cup {[opens |-> o, num_pages |-> 0, abstract |-> <<>>, pages |-> <<>>] :
                o \in BOOLEAN}
        \cup {[opens |-> FALSE, num_pages |-> 2, abstract |-> <<"Abs">>,
               pages |-> <<PlainPage>>]}

ExtractInit ==
    /\ doc \in Docs
    /\ ext_pc = "start" /\ page_i = 0 /\ treated_text = <<>>
    /\ processed = {} /\ checked = {} /\ ending_page = -1
    /\ ext_result = [kind |-> "none"]

RECURSIVE CeilLog(_, _)
\* the least k >= j with 1.9^k >= n
CeilLog(n, j) == IF 19 ^ j >= n * 10 ^ j THEN j ELSE CeilLog(n, j + 1)

ThresholdCeil(page_number) == page_number - CeilLog(page_number, 0) + 1

\* math.floor(page_number - math.log(page_number, 1.9)); log(n, 1.9) is an
\* integer only for n = 1
calculate_ignorable_page_threshold(page_number) ==
    page_number - CeilLog(page_number, 0)

\* the outer "except Exception": print and return "", ""
OuterExceptReraise == [kind |-> "raised", abstract |-> <<>>, full_text |-> <<>>]

OuterExcept == [kind |-> "returned", abstract |-> <<>>, full_text |-> <<>>]

\* " ".join(item[0] for item in treated_text if item and len(item) > 0 and item[0])
Flatten(tt) ==
    JoinTexts([k \in DOMAIN SelectSeq(tt, LAMBDA e : e.item # <<>> /\ e.item[1] # <<>>)
                 |-> SelectSeq(tt, LAMBDA e : e.item # <<>> /\ e.item[1] # <<>>)[k].item[1]])

ExtractOnly == UNCHANGED <<chunkVars, pageVars, locVars, ctxVars, absVars, pipeVars,
    tblVars, geoVars>>

\* fitz.open raises: the outer handler returns the empty pair
OpenFails ==
    /\ ext_pc = "start" /\ ~doc.opens
    /\ ext_result' = OuterExcept /\ ext_pc' = "done"
    /\ UNCHANGED <<doc, page_i, treated_text, processed, checked, ending_page>>
    /\ ExtractOnly

\* if doc.page_count == 0: return "", ""
OpenEmpty ==
    /\ ext_pc = "start" /\ doc.opens /\ doc.num_pages = 0
    /\ ext_result' = [kind |-> "returned", abstract |-> <<>>, full_text |-> <<>>]
    /\ ext_pc' = "done"
    /\ UNCHANGED <<doc, page_i, treated_text, processed, checked, ending_page>>
    /\ ExtractOnly

\* the threshold and the abstract of page 0; the loop starts at page 1
ExtractAbstract ==
    /\ ext_pc = "start" /\ doc.opens /\ doc.num_pages > 0
    /\ page_i' = 1
    /\ ext_pc' = IF 1 < doc.num_pages THEN "pages" ELSE "flatten"
    /\ UNCHANGED <<doc, treated_text, processed, checked, ending_page, ext_result>>
    /\ ExtractOnly

\* i >= number_of_pages_to_start_checking_ending
StartsChecking(i, n) == i >= calculate_ignorable_page_threshold(n)

NextPagePc == IF page_i + 1 < doc.num_pages THEN "pages" ELSE "flatten"

\* process_page raises on a checked page (line 42, outside the page's try)
CheckedPageRaises ==
    /\ ext_pc = "pages" /\ page_i < doc.num_pages
    /\ StartsChecking(page_i, doc.num_pages)
    /\ doc.pages[page_i].raises
    /\ processed' = processed \cup {page_i}
    /\ ext_result' = OuterExcept /\ ext_pc' = "done"
    /\ UNCHANGED <<doc, page_i, treated_text, checked, ending_page>>
    /\ ExtractOnly

\* an ending keyword matches on a checked page: append the cut text and break
EndingPage ==
    /\ ext_pc = "pages" /\ page_i < doc.num_pages
    /\ StartsChecking(page_i, doc.num_pages)
    /\ ~doc.pages[page_i].raises
    /\ LET last_useful_page_text == CheckEndingKeywords(doc.pages[page_i].words)
       IN /\ ~last_useful_page_text.none /\ last_useful_page_text.text # <<>>
          /\ LET last_page_no_references ==
                     RemoveReferences(<<last_useful_page_text.text>>)
             IN treated_text' =
                    IF last_page_no_references # <<>> /\ last_page_no_references[1] # <<>>
                    THEN Append(treated_text,
                                [page |-> page_i, item |-> last_page_no_references])
                    ELSE treated_text
    /\ processed' = processed \cup {page_i}
    /\ checked' = checked \cup {page_i}
    /\ ending_page' = page_i
    /\ ext_pc' = "flatten"
    /\ UNCHANGED <<doc, page_i, ext_result>>
    /\ ExtractOnly

\* the regular content of a page: below the threshold, or checked without a match
RegularPage ==
    /\ ext_pc = "pages" /\ page_i < doc.num_pages
    /\ ~doc.pages[page_i].raises
    /\ \/ /\ ~StartsChecking(page_i, doc.num_pages)
          /\ checked' = checked
       \/ /\ StartsChecking(page_i, doc.num_pages)
          /\ LET last_useful_page_text == CheckEndingKeywords(doc.pages[page_i].words)
             IN last_useful_page_text.none \/ last_useful_page_text.text = <<>>
          /\ checked' = checked \cup {page_i}
    /\ LET text_content == JoinTexts(doc.pages[page_i].words)
       IN treated_text' =
              IF text_content # <<>>
              THEN Append(treated_text,
                          [page |-> page_i, item |-> RemoveReferences(<<text_content>>)])
              ELSE treated_text
    /\ processed' = processed \cup {page_i}
    /\ page_i' = page_i + 1
    /\ ext_pc' = NextPagePc
    /\ UNCHANGED <<doc, ending_page, ext_result>>
    /\ ExtractOnly

\* process_page raises below the threshold: caught, the loop continues
RegularPageRaises ==
    /\ ext_pc = "pages" /\ page_i < doc.num_pages
    /\ ~StartsChecking(page_i, doc.num_pages)
    /\ doc.pages[page_i].raises
    /\ processed' = processed \cup {page_i}
    /\ page_i' = page_i + 1
    /\ ext_pc' = NextPagePc
    /\ UNCHANGED <<doc, treated_text, checked, ending_page, ext_result>>
    /\ ExtractOnly

\* flatten treated_text and return abstract, full_text
FlattenAndReturn ==
    /\ ext_pc = "flatten"
    /\ ext_result' = [kind |-> "returned", abstract |-> doc.abstract,
                      full_text |-> IF treated_text # <<>>
                                    THEN Flatten(treated_text) ELSE <<>>]
    /\ ext_pc' = "done"
    /\ UNCHANGED <<doc, page_i, treated_text, processed, checked, ending_page>>
    /\ ExtractOnly

ExtractNext ==
    \/ OpenFails
    \/ OpenEmpty
    \/ ExtractAbstract
    \/ CheckedPageRaises
    \/ EndingPage
    \/ RegularPage
    \/ RegularPageRaises
    \/ FlattenAndReturn

SpecExtractInit == ChunkIdle /\ ExtractInit /\ PageIdle /\ LocIdle /\ CtxIdle /\ AbsIdle
    /\ PipeIdle /\ TblIdle /\ GeoIdle
SpecExtract == SpecExtractInit /\ [][ExtractNext]_vars

\* the joined text of the words process_page yields for page j
PageJoined(j) == JoinTexts(doc.pages[j].words)

\* the atoms of text t at which an ending keyword matches
MatchStarts(t) ==
    {i \in 1 .. Len(t) :
        \E kw \in EndingKeywords : KeywordMatchesAt(LowerText(t), i, kw)}

\* text t cut at the end of its earliest ending-keyword match
CutAtEarliestMatch(t) ==
    LET first == CHOOSE i \in MatchStarts(t) : \A m \in MatchStarts(t) : i <= m
        kw == CHOOSE k \in EndingKeywords : KeywordMatchesAt(LowerText(t), first, k)
    IN SubSeq(t, 1, first + Len(kw) - 1)

IsSuffix(u, t) ==
    Len(u) <= Len(t) /\ SubSeq(t, Len(t) - Len(u) + 1, Len(t)) = u

RaisingProcessed == {j \in processed : doc.pages[j].raises}

(* C5: when the processing of one body page raises, only that page's
   contribution is dropped: extract_text still returns the abstract and the
   text of the other processed pages, whatever the index of the failing page. *)
C5_PageFailureLocal ==
    (ext_pc = "done" /\ RaisingProcessed # {})
        => /\ ext_result.kind = "returned"
           /\ ext_result.abstract = doc.abstract
           /\ ext_result.full_text = Flatten(treated_text)

(* Below the section-trim threshold a failing page is dropped alone. *)
C5_FailureBelowThreshold ==
    (ext_pc = "done" /\ RaisingProcessed # {}
        /\ \A j \in RaisingProcessed : ~StartsChecking(j, doc.num_pages))
        => /\ ext_result.kind = "returned"
           /\ ext_result.abstract = doc.abstract
           /\ ext_result.full_text = Flatten(treated_text)

(* C6: extract_text never propagates an exception: it always returns a pair of
   texts, and the pair of empty texts for a document that fails to open or has
   no page. *)
C6_NeverRaises ==
    ext_pc = "done"
        => /\ ext_result.kind = "returned"
           /\ ext_result.abstract \in Seq(Atoms)
           /\ ext_result.full_text \in Seq(Atoms)
           /\ (~doc.opens \/ doc.num_pages = 0)
                 => ext_result.abstract = <<>> /\ ext_result.full_text = <<>>

C6_Witness ==
    /\ ext_pc = "done" /\ doc.opens /\ doc.num_pages > 1
    /\ \E j \in RaisingProcessed : StartsChecking(j, doc.num_pages)
    /\ treated_text # <<>>

(* C8: the first checked page on which an ending keyword matches is terminal:
   its text is cut at the end of the earliest matching phrase, the cut text
   (after reference stripping, as for every page) is the last contribution to
   the body, and no page of a larger index is processed or contributes. *)
C8_EndingTerminal ==
    /\ \A j \in checked : MatchStarts(PageJoined(j)) # {} => ending_page = j
    /\ ending_page # -1 =>
        /\ ending_page \in checked
        /\ \A j \in processed : j <= ending_page
        /\ page_i = ending_page
        /\ treated_text # <<>>
        /\ \A k \in DOMAIN treated_text : treated_text[k].page <= ending_page
        /\ LET last == treated_text[Len(treated_text)]
               cut == CutAtEarliestMatch(PageJoined(ending_page))
           IN /\ last.page = ending_page
              /\ last.item = <<StripCitations(StripHyphens(cut))>>
              /\ ext_pc = "done" =>
                    /\ ext_result.kind = "returned"
                    /\ IsSuffix(last.item[1], ext_result.full_text)

C8_Witness ==
    /\ ext_pc = "done" /\ ending_page # -1
    /\ ending_page + 1 < doc.num_pages
    /\ Len(treated_text) >= 2
    /\ Cardinality(MatchStarts(PageJoined(ending_page))) >= 2
    /\ Len(CutAtEarliestMatch(PageJoined(ending_page)))
           < Len(PageJoined(ending_page))

\* t = floor(n - log(n, 1.9)): 1.9^(n-t) is the least power of 1.9 that is >= n
\* (at most 1.9^6 for the page counts of the model)
IsLogThreshold(n, t) ==
    /\ n - t \in 0 .. 6
    /\ 19 ^ (n - t) >= n * 10 ^ (n - t)
    /\ n - t > 0 => 19 ^ (n - t - 1) < n * 10 ^ (n - t - 1)

(* C9: with T = floor(total_pages - log(total_pages, 1.9)), a page of index
   below T is never checked for ending keywords (a keyword on it neither cuts
   its text nor stops the extraction) and every page of index >= T that the
   page loop reaches (process_page yields its words) is checked; for 20
   pages T is 15.  Page 0 is read for the abstract only, outside the loop. *)
C9_Threshold ==
    (doc.opens /\ doc.num_pages > 0) =>
        \A t \in 0 .. doc.num_pages :
            IsLogThreshold(doc.num_pages, t) =>
                /\ \A j \in checked : j >= t
                /\ ending_page # -1 => ending_page >= t
                /\ \A j \in processed :
                      (j >= t /\ ~doc.pages[j].raises) => j \in checked
                /\ \A j \in processed :
                      (j < t /\ ~doc.pages[j].raises /\ PageJoined(j) # <<>>) =>
                          /\ page_i > j
                          /\ \E k \in DOMAIN treated_text :
                                treated_text[k] =
                                    [page |-> j,
                                     item |-> RemoveReferences(<<PageJoined(j)>>)]
                /\ doc.num_pages = 20 => t = 15

C9_Witness ==
    /\ ext_pc = "done" /\ doc.num_pages = 20
    /\ IsLogThreshold(20, 15)
    /\ MatchStarts(PageJoined(14)) # {}
    /\ processed = 1 .. 19
    /\ checked = 15 .. 19
    /\ ending_page = -1

\* what page j adds to the body: its words joined and cleaned, cut at the
\* ending keyword on the ending page; nothing when process_page raises
SegmentOf(j) ==
    IF doc.pages[j].raises THEN <<>>
    ELSE IF j = ending_page
         THEN StripCitations(StripHyphens(CutAtEarliestMatch(PageJoined(j))))
         ELSE StripCitations(StripHyphens(PageJoined(j)))

RECURSIVE SegmentsFrom(_)
\* the non-empty segments of the processed pages of index j and more, in
\* increasing page order
SegmentsFrom(j) ==
    IF j >= doc.num_pages THEN <<>>
    ELSE (IF j \in processed /\ SegmentOf(j) # <<>> THEN <<SegmentOf(j)>> ELSE <<>>)
             \o SegmentsFrom(j + 1)

\* a step that processes a page processes page_i, an index above every page
\* processed before and never page 0
PagesInOrder ==
    processed' # processed
        => /\ processed' = processed \cup {page_i}
           /\ page_i >= 1
           /\ \A j \in processed : j < page_i

\* each page holds at most one segment, the segments are in increasing page
\* order, and none is of page 0
OneSegmentPerPage ==
    /\ \A k \in DOMAIN treated_text :
          treated_text[k].page \in processed \ {0} /\ Len(treated_text[k].item) = 1
    /\ \A k, q \in DOMAIN treated_text :
          k < q => treated_text[k].page < treated_text[q].page

(* C27: extract_text processes the pages in strictly increasing index order;
   page 0 gives the abstract only and never a part of the body, each later
   page contributes at most one segment, and the body text returned is the
   non-empty segments of the pages joined by single spaces in increasing
   page order. *)
C27_PagesInOrder ==
    /\ [][PagesInOrder]_vars
    /\ [](OneSegmentPerPage)
    /\ []((ext_pc = "done" /\ doc.opens /\ doc.num_pages > 0)
            => /\ ext_result.abstract = doc.abstract
               /\ ext_result.full_text = JoinTexts(SegmentsFrom(1)))

(* The same, for the runs in which process_page raises on no page at or
   above the ending-check threshold. *)
C27_PagesInOrderNoCheckedRaise ==
    /\ [][PagesInOrder]_vars
    /\ [](OneSegmentPerPage)
    /\ []((ext_pc = "done" /\ doc.opens /\ doc.num_pages > 0
             /\ \A j \in RaisingProcessed : ~StartsChecking(j, doc.num_pages))
            => /\ ext_result.abstract = doc.abstract
               /\ ext_result.full_text = JoinTexts(SegmentsFrom(1)))

(***************************************************************************)
(* process_page                                                            *)
(***************************************************************************)
\* a page holds at most MaxWords words
MaxWords == 3

\* page.rect of the pages of the model
PageSide == 20

Word(x0, y0, x1, y1, t) == [x0 |-> x0, y0 |-> y0, x1 |-> x1, y1 |-> y1, text |-> t]

\* one element of the list extract_tables returns: a box [x0, y0, x1, y1, page],
\* or the bare page number that follows the full-page box of a vertical page
Box(x0, y0, x1, y1) == [box |-> TRUE, x0 |-> x0, y0 |-> y0, x1 |-> x1, y1 |-> y1]
PageNumber == [box |-> FALSE, x0 |-> 0, y0 |-> 0, x1 |-> 0, y1 |-> 0]

Table1 == Box(1, 4, 10, 10)
Table2 == Box(11, 11, 15, 15)

\* words inside a table, on its edge, across its edge, on the margins' limits,
\* on the page's edge, and clear of everything
PageWords ==
    { Word(2, 5, 4, 6, "a"), Word(1, 5, 4, 6, "b"), Word(8, 8, 12, 9, "c"),
      Word(2, 1, 4, 2, "d"), Word(2, 19, 4, 20, "e"), Word(0, 12, 3, 13, "f"),
      Word(12, 12, 14, 13, "g"), Word(16, 2, 18, 3, "h") }

\* what extract_tables returns: None, a list of boxes (possibly empty), or
\* [[0, 0, page.rect.width, page.rect.height], page.number]
TableResults ==
    { [none |-> TRUE, items |-> <<>>],
      [none |-> FALSE, items |-> <<>>],
      [none |-> FALSE, items |-> <<Table1>>],
      [none |-> FALSE, items |-> <<Table1, Table2>>],
      [none |-> FALSE, items |-> <<Box(0, 0, PageSide, PageSide), PageNumber>>] }

RECURSIVE SeqsUpTo(_, _)
\* the sequences over S of length at most n
SeqsUpTo(S, n) ==
    IF n = 0 THEN {<<>>}
    ELSE SeqsUpTo(S, n - 1)
            \cup {Append(q, x) : q \in {r \in SeqsUpTo(S, n - 1) : Len(r) = n - 1}, x \in S}

PageInit ==
    /\ page_height = PageSide /\ page_width = PageSide
    /\ page_text \in SeqsUpTo(PageWords, MaxWords)
    /\ extracted_tables \in TableResults
    /\ page_pc = "start" /\ word_i = 1 /\ return_text = <<>>
    /\ page_result = "none"

\* min_y < word[1] < max_y, with min_y and max_y at 5% and 95% of the page height
InMargins(word, height) ==
    5 * height < 100 * word.y0 /\ 100 * word.y0 < 95 * height

StrictlyInside(word, table) ==
    /\ word.x0 > table.x0 /\ word.y0 > table.y0
    /\ word.x1 < table.x1 /\ word.y1 < table.y1

RECURSIVE is_word_inside_any_table(_, _)
\* "True", "False", or "TypeError" when table[0:4] is taken of an int
is_word_inside_any_table(word, tables) ==
    IF tables = <<>> THEN "False"
    ELSE IF ~tables[1].box THEN "TypeError"
    ELSE IF StrictlyInside(word, tables[1]) THEN "True"
    ELSE is_word_inside_any_table(word, Tail(tables))

PageOnly == UNCHANGED <<chunkVars, extractVars, locVars, ctxVars, absVars, pipeVars,
    tblVars, geoVars>>

\* if extracted_tables: return process_page_with_tables(...)
ProcessPageWithTables ==
    /\ page_pc = "start"
    /\ ~extracted_tables.none /\ extracted_tables.items # <<>>
    /\ page_pc' = "with_tables"
    /\ UNCHANGED <<page_height, page_width, page_text, extracted_tables, word_i,
                   return_text, page_result>>
    /\ PageOnly

\* else: the margins alone filter the words
ProcessPageNoTables ==
    /\ page_pc = "start"
    /\ extracted_tables.none \/ extracted_tables.items = <<>>
    /\ page_pc' = "no_tables"
    /\ UNCHANGED <<page_height, page_width, page_text, extracted_tables, word_i,
                   return_text, page_result>>
    /\ PageOnly

\* one iteration of "for word in page_text" of process_page
MarginWord ==
    /\ page_pc = "no_tables" /\ word_i <= Len(page_text)
    /\ return_text' = IF InMargins(page_text[word_i], page_height)
                      THEN Append(return_text, page_text[word_i].text)
                      ELSE return_text
    /\ word_i' = word_i + 1
    /\ UNCHANGED <<page_height, page_width, page_text, extracted_tables, page_pc,
                   page_result>>
    /\ PageOnly

\* one iteration of "for word in page_text" of process_page_with_tables
TableWord ==
    /\ page_pc = "with_tables" /\ word_i <= Len(page_text)
    /\ LET inside == is_word_inside_any_table(page_text[word_i], extracted_tables.items)
       IN /\ inside # "TypeError"
          /\ return_text' = IF inside = "False" /\ InMargins(page_text[word_i], page_height)
                            THEN Append(return_text, page_text[word_i].text)
                            ELSE return_text
    /\ word_i' = word_i + 1
    /\ UNCHANGED <<page_height, page_width, page_text, extracted_tables, page_pc,
                   page_result>>
    /\ PageOnly

\* is_word_inside_any_table raises: process_page raises
TableWordRaises ==
    /\ page_pc = "with_tables" /\ word_i <= Len(page_text)
    /\ is_word_inside_any_table(page_text[word_i], extracted_tables.items) = "TypeError"
    /\ page_pc' = "done" /\ page_result' = "TypeError"
    /\ UNCHANGED <<page_height, page_width, page_text, extracted_tables, word_i,
                   return_text>>
    /\ PageOnly

ReturnWords ==
    /\ page_pc \in {"no_tables", "with_tables"} /\ word_i > Len(page_text)
    /\ page_pc' = "done" /\ page_result' = "returned"
    /\ UNCHANGED <<page_height, page_width, page_text, extracted_tables, word_i,
                   return_text>>
    /\ PageOnly

PageNext ==
    \/ ProcessPageWithTables
    \/ ProcessPageNoTables
    \/ MarginWord
    \/ TableWord
    \/ TableWordRaises
    \/ ReturnWords

SpecPageInit == ChunkIdle /\ ExtractIdle /\ PageInit /\ LocIdle /\ CtxIdle /\ AbsIdle
    /\ PipeIdle /\ TblIdle /\ GeoIdle
SpecPage == SpecPageInit /\ [][PageNext]_vars

\* the table boxes extract_tables detected
DetectedBoxes ==
    {extracted_tables.items[k] : k \in {m \in DOMAIN extracted_tables.items :
                                            extracted_tables.items[m].box}}

\* the words the rule keeps, in their input order
KeptByRule ==
    LET kept == SelectSeq(page_text,
                    LAMBDA w : /\ InMargins(w, page_height)
                               /\ \A b \in DetectedBoxes : ~StrictlyInside(w, b))
    IN [k \in DOMAIN kept |-> kept[k].text]

\* the words process_page hands back: none when it raises
KeptWords == IF page_result = "returned" THEN return_text ELSE <<>>

(* C10: process_page keeps a word if and only if its vertical position is
   strictly between 5% and 95% of the page height and its box is not strictly
   inside any detected table box; a word that overlaps a box partially or
   touches its edge is kept, and the kept words stay in their input order. *)
C10_WordFilter ==
    page_pc = "done" => KeptWords = KeptByRule

(* When extract_tables returns None or a list of boxes, process_page returns
   exactly the words the rule keeps. *)
C10_WordFilterBoxes ==
    (page_pc = "done" /\ \A k \in DOMAIN extracted_tables.items :
                              extracted_tables.items[k].box)
        => page_result = "returned" /\ return_text = KeptByRule

\* extract_tables returned the full-page result of a vertical-dominant page
VerticalPageResult ==
    /\ ~extracted_tables.none
    /\ extracted_tables.items = <<Box(0, 0, page_width, page_height), PageNumber>>

(* C23: when extract_tables returns the full-page result of a
   vertical-dominant page, process_page completes and returns no words, for
   every word list of the page, words that touch or cross the page edges
   included. *)
C23_VerticalPageNoWords ==
    (page_pc = "done" /\ VerticalPageResult)
        => page_result = "returned" /\ return_text = <<>>

(* On a vertical-dominant page whose words all lie strictly inside the page
   rectangle, process_page completes and returns no words. *)
C23_VerticalPageInnerWords ==
    (page_pc = "done" /\ VerticalPageResult
        /\ \A k \in DOMAIN page_text :
              StrictlyInside(page_text[k], Box(0, 0, page_width, page_height)))
        => page_result = "returned" /\ return_text = <<>>

(***************************************************************************)
(* extract_locations                                                       *)
(***************************************************************************)
\* prepare_text_for_extraction hands over at most MaxParts parts
MaxParts == 3

Loc(name, country, score) ==
    [location_name |-> name, location_country |-> country, importance_score |-> score]

\* what location_extractor yields for one part: a list of locations, or an exception
LlmLists ==
    { <<>>,
      <<Loc("Lisbon", "Portugal", 8)>>,
      <<Loc("Lisbon", "", 5), Loc("Porto", "Portugal", 7)>>,
      <<Loc("", "", 6), Loc("Lisbon", "Portugal", 8)>>,
      <<Loc("Porto", "Portugal", 7), Loc("Porto", "", 6)>> }

LlmOutcomes ==
    {[raises |-> FALSE, locations |-> l] : l \in LlmLists}
        \cup {[raises |-> TRUE, locations |-> <<>>]}

\* prepare_text_for_extraction returns (parts, total_tokens) or raises; the
\* model keeps the number of parts
PrepareOutcomes ==
    {[raises |-> FALSE, parts |-> n] : n \in 0 .. MaxParts}
        \cup {[raises |-> TRUE, parts |-> 0]}

\* get_location_frequencies counts every name count times, or raises
FreqOutcomes == {[raises |-> TRUE, count |-> 0]}
                    \cup {[raises |-> FALSE, count |-> c] : c \in {0, 2}}

\* the locals of extract_locations; bound tells whether the names assigned
\* after prepare_text_for_extraction returned (lines 82-90) are bound
UnboundLocals ==
    [bound |-> FALSE, seen_location_names |-> {}, original_location_names |-> <<>>,
     display_location_names |-> <<>>, location_importance_scores |-> <<>>,
     frequencies_list |-> <<>>]

BoundLocalsAtStart == [UnboundLocals EXCEPT !.bound = TRUE]

LocInit ==
    /\ prepare_outcome \in PrepareOutcomes
    /\ llm_outcome \in [1 .. prepare_outcome.parts -> LlmOutcomes]
    /\ freq_outcome \in FreqOutcomes
    /\ loc_pc = "start" /\ loc_part = 1
    /\ loc_locals = UnboundLocals
    /\ loc_result = [kind |-> "none"]

\* f"{location_name}, {location_country}" when the country is given
DisplayName(loc) ==
    IF loc.location_country # ""
    THEN <<loc.location_name, ", ", loc.location_country>>
    ELSE <<loc.location_name>>

RECURSIVE AddLocations(_, _)
\* "for loc in location_names": keep the locations of a new, non-empty name
AddLocations(locals, location_names) ==
    IF location_names = <<>> THEN locals
    ELSE LET loc == location_names[1]
         IN IF loc.location_name # ""
                 /\ loc.location_name \notin locals.seen_location_names
            THEN AddLocations(
                    [locals EXCEPT
                        !.seen_location_names = @ \cup {loc.location_name},
                        !.original_location_names = Append(@, loc.location_name),
                        !.display_location_names = Append(@, DisplayName(loc)),
                        !.location_importance_scores = Append(@, loc.importance_score)],
                    Tail(location_names))
            ELSE AddLocations(locals, Tail(location_names))

LocOnly == UNCHANGED <<chunkVars, extractVars, pageVars, ctxVars, absVars, pipeVars,
    tblVars, geoVars>>

\* prepare_text_for_extraction returns: the lists of lines 85-90 are bound
PrepareReturns ==
    /\ loc_pc = "start" /\ ~prepare_outcome.raises
    /\ loc_locals' = BoundLocalsAtStart
    /\ loc_pc' = "parts"
    /\ UNCHANGED <<prepare_outcome, llm_outcome, freq_outcome, loc_part, loc_result>>
    /\ LocOnly

\* prepare_text_for_extraction raises: the handler of line 135 prints
PrepareRaises ==
    /\ loc_pc = "start" /\ prepare_outcome.raises
    /\ loc_pc' = "return"
    /\ UNCHANGED <<prepare_outcome, llm_outcome, freq_outcome, loc_part, loc_locals,
                   loc_result>>
    /\ LocOnly

\* one iteration of "for part in extraction_text"
ExtractPart ==
    /\ loc_pc = "parts" /\ loc_part <= prepare_outcome.parts
    /\ ~llm_outcome[loc_part].raises
    /\ loc_locals' = AddLocations(loc_locals, llm_outcome[loc_part].locations)
    /\ loc_part' = loc_part + 1
    /\ UNCHANGED <<prepare_outcome, llm_outcome, freq_outcome, loc_pc, loc_result>>
    /\ LocOnly

\* location_extractor raises: print and continue
ExtractPartRaises ==
    /\ loc_pc = "parts" /\ loc_part <= prepare_outcome.parts
    /\ llm_outcome[loc_part].raises
    /\ loc_part' = loc_part + 1
    /\ UNCHANGED <<prepare_outcome, llm_outcome, freq_outcome, loc_pc, loc_locals,
                   loc_result>>
    /\ LocOnly

\* frequencies of the original names, in their order
GetFrequencies ==
    /\ loc_pc = "parts" /\ loc_part > prepare_outcome.parts
    /\ ~freq_outcome.raises
    /\ loc_locals' = [loc_locals EXCEPT !.frequencies_list =
                        [k \in DOMAIN loc_locals.original_location_names
                            |-> freq_outcome.count]]
    /\ loc_pc' = "return"
    /\ UNCHANGED <<prepare_outcome, llm_outcome, freq_outcome, loc_part, loc_result>>
    /\ LocOnly

\* get_location_frequencies raises: every frequency defaults to 1
GetFrequenciesRaises ==
    /\ loc_pc = "parts" /\ loc_part > prepare_outcome.parts
    /\ freq_outcome.raises
    /\ loc_locals' = [loc_locals EXCEPT !.frequencies_list =
                        [k \in DOMAIN loc_locals.original_location_names |-> 1]]
    /\ loc_pc' = "return"
    /\ UNCHANGED <<prepare_outcome, llm_outcome, freq_outcome, loc_part, loc_result>>
    /\ LocOnly

\* return PostPaperLocationData(...), total_tokens
ReturnLocationData ==
    /\ loc_pc = "return" /\ loc_locals.bound
    /\ loc_result' =
        [kind |-> "returned",
         location_number |-> Len(loc_locals.display_location_names),
         location_names |-> loc_locals.display_location_names,
         location_importance_scores |-> loc_locals.location_importance_scores,
         location_frequencies |-> loc_locals.frequencies_list]
    /\ loc_pc' = "done"
    /\ UNCHANGED <<prepare_outcome, llm_outcome, freq_outcome, loc_part, loc_locals>>
    /\ LocOnly

\* the return statement reads display_location_names, which was never bound
ReturnUnbound ==
    /\ loc_pc = "return" /\ ~loc_locals.bound
    /\ loc_result' = [kind |-> "UnboundLocalError"]
    /\ loc_pc' = "done"
    /\ UNCHANGED <<prepare_outcome, llm_outcome, freq_outcome, loc_part, loc_locals>>
    /\ LocOnly

LocNext ==
    \/ PrepareReturns
    \/ PrepareRaises
    \/ ExtractPart
    \/ ExtractPartRaises
    \/ GetFrequencies
    \/ GetFrequenciesRaises
    \/ ReturnLocationData
    \/ ReturnUnbound

SpecLocInit == ChunkIdle /\ ExtractIdle /\ PageIdle /\ LocInit /\ CtxIdle /\ AbsIdle
    /\ PipeIdle /\ TblIdle /\ GeoIdle
SpecLoc == SpecLocInit /\ [][LocNext]_vars

EmptyLocationData ==
    [kind |-> "returned", location_number |-> 0, location_names |-> <<>>,
     location_importance_scores |-> <<>>, location_frequencies |-> <<>>]

(* C7: whenever prepare_text_for_extraction raises, extract_locations still
   returns a result with an empty location set: zero locations and empty
   name, score and frequency lists. *)
C7_PrepareFailureEmptyResult ==
    (loc_pc = "done" /\ prepare_outcome.raises) => loc_result = EmptyLocationData

(* When prepare_text_for_extraction returns, extract_locations returns a
   result, whatever location_extractor and get_location_frequencies do. *)
C7_ReturnsWhenPrepared ==
    (loc_pc = "done" /\ ~prepare_outcome.raises)
        => /\ loc_result.kind = "returned"
           /\ loc_result.location_number = Len(loc_result.location_names)
           /\ Len(loc_result.location_frequencies) = loc_result.location_number

(***************************************************************************)
(* KeywordContextFinder (text_preparation.py).  The body text is known by  *)
(* its length and by the spans pattern.finditer reports, left to right; a  *)
(* context is the half-open character range [start, end) it slices, and    *)
(* the returned string is the sequence of its pieces: a slice of the text  *)
(* (each newline in it replaced by a space) or the joining space.          *)
(***************************************************************************)
\* self.window = 4000
FixedWindow == 4000
\* at most MaxMatches keyword matches in the text
MaxMatches == 3

\* lengths of the shortest and the longest trigger phrase ("basin",
\* "sample location")
KeywordLengths == {5, 15}

\* characters before the first match, between two matches (a word boundary
\* ends a match, so the next one starts at least one character later), and
\* after the last match
FirstGaps == {0, 1, FixedWindow, FixedWindow + 1}
Gaps == {1, 2 * FixedWindow - 1, 2 * FixedWindow, 2 * FixedWindow + 1}
Tails == {0, 1, FixedWindow, FixedWindow + 1}

Span(s, e) == [start |-> s, end |-> e]

\* [(m.start(), m.end()) for m in self.pattern.finditer(text)]
RECURSIVE MatchLists(_)
MatchLists(n) ==
    IF n = 0 THEN {<<>>}
    ELSE LET prev == MatchLists(n - 1)
         IN  prev
             \cup {<<Span(g, g + l)>> : g \in FirstGaps, l \in KeywordLengths}
             \cup {Append(m, Span(m[Len(m)].end + g, m[Len(m)].end + g + l)) :
                     m \in prev \ {<<>>}, g \in Gaps, l \in KeywordLengths}

\* the window argument: the constructor's default, an integer, or what
\* os.environ.get("PART_SIZE") yields (None or a string)
WindowArgs ==
    {[kind |-> "None", value |-> 0], [kind |-> "str", value |-> 1200],
     [kind |-> "int", value |-> 1200], [kind |-> "int", value |-> 1]}

CtxInit ==
    /\ matches \in MatchLists(MaxMatches)
    /\ text_length \in IF matches = <<>> THEN {0, 1, FixedWindow}
                       ELSE {matches[Len(matches)].end + t : t \in Tails}
    /\ window \in WindowArgs
    /\ self_window = 0 /\ ctx_pc = "new" /\ match_i = 0 /\ current = <<>>
    /\ contexts = <<>> /\ ctx_result = <<>>

SelfWindowFromArg(w) == w.value

\* __init__: the window argument is overwritten
SelfWindow(w) == FixedWindow

\* context_start = max(0, start - self.window)
ContextStart(start, w) == Max(0, start - w)

ContextEndUnclipped(end, w, len) == end + w

\* context_end = min(text_length, end + self.window)
ContextEnd(end, w, len) == Min(len, end + w)

MergesNever(context_start, current_end) == FALSE

\* elif context_start <= current_end
Merges(context_start, current_end) == context_start <= current_end

Slice(c) == [kind |-> "slice", start |-> c.start, end |-> c.end]
Space == [kind |-> "space", start |-> 0, end |-> 0]

\* " ".join(context.replace("\n", " ") for context in contexts)
JoinContexts(cs) ==
    [k \in 1 .. 2 * Len(cs) - 1 |->
        IF k % 2 = 1 THEN Slice(cs[(k + 1) \div 2]) ELSE Space]

CtxOnly == UNCHANGED <<chunkVars, extractVars, pageVars, locVars, absVars, pipeVars,
    tblVars, geoVars>>

\* KeywordContextFinder(keywords, window)
Construct ==
    /\ ctx_pc = "new"
    /\ self_window' = SelfWindow(window)
    /\ ctx_pc' = "find"
    /\ UNCHANGED <<text_length, matches, window, match_i, current, contexts,
                   ctx_result>>
    /\ CtxOnly

\* if not text: return ""
FindEmptyText ==
    /\ ctx_pc = "find" /\ text_length = 0
    /\ ctx_result' = <<>> /\ ctx_pc' = "done"
    /\ UNCHANGED <<text_length, matches, window, self_window, match_i, current,
                   contexts>>
    /\ CtxOnly

\* if not matches: return ""
FindNoMatches ==
    /\ ctx_pc = "find" /\ text_length > 0 /\ matches = <<>>
    /\ ctx_result' = <<>> /\ ctx_pc' = "done"
    /\ UNCHANGED <<text_length, matches, window, self_window, match_i, current,
                   contexts>>
    /\ CtxOnly

\* return self._process_contexts(text, matches): the locals of lines 33-35
EnterProcessContexts ==
    /\ ctx_pc = "find" /\ text_length > 0 /\ matches # <<>>
    /\ contexts' = <<>> /\ current' = <<>> /\ match_i' = 1 /\ ctx_pc' = "loop"
    /\ UNCHANGED <<text_length, matches, window, self_window, ctx_result>>
    /\ CtxOnly

\* if current_start is None
StartContext ==
    /\ ctx_pc = "loop" /\ match_i <= Len(matches) /\ current = <<>>
    /\ current' = <<Span(ContextStart(matches[match_i].start, self_window),
                         ContextEnd(matches[match_i].end, self_window, text_length))>>
    /\ match_i' = match_i + 1
    /\ UNCHANGED <<text_length, matches, window, self_window, ctx_pc, contexts,
                   ctx_result>>
    /\ CtxOnly

\* elif context_start <= current_end: current_end = max(current_end, context_end)
ExtendContext ==
    /\ ctx_pc = "loop" /\ match_i <= Len(matches) /\ current # <<>>
    /\ Merges(ContextStart(matches[match_i].start, self_window), current[1].end)
    /\ current' = <<Span(current[1].start,
                         Max(current[1].end,
                             ContextEnd(matches[match_i].end, self_window,
                                        text_length)))>>
    /\ match_i' = match_i + 1
    /\ UNCHANGED <<text_length, matches, window, self_window, ctx_pc, contexts,
                   ctx_result>>
    /\ CtxOnly

\* else: contexts.append(text[current_start:current_end]) and restart
FlushContext ==
    /\ ctx_pc = "loop" /\ match_i <= Len(matches) /\ current # <<>>
    /\ ~Merges(ContextStart(matches[match_i].start, self_window), current[1].end)
    /\ contexts' = Append(contexts, current[1])
    /\ current' = <<Span(ContextStart(matches[match_i].start, self_window),
                         ContextEnd(matches[match_i].end, self_window, text_length))>>
    /\ match_i' = match_i + 1
    /\ UNCHANGED <<text_length, matches, window, self_window, ctx_pc, ctx_result>>
    /\ CtxOnly

\* after the loop: flush the open context and join
ReturnContexts ==
    /\ ctx_pc = "loop" /\ match_i > Len(matches)
    /\ contexts' = IF current # <<>> THEN Append(contexts, current[1]) ELSE contexts
    /\ ctx_result' = JoinContexts(contexts')
    /\ ctx_pc' = "done"
    /\ UNCHANGED <<text_length, matches, window, self_window, match_i, current>>
    /\ CtxOnly

CtxNext ==
    \/ Construct
    \/ FindEmptyText
    \/ FindNoMatches
    \/ EnterProcessContexts
    \/ StartContext
    \/ ExtendContext
    \/ FlushContext
    \/ ReturnContexts

SpecCtxInit == ChunkIdle /\ ExtractIdle /\ PageIdle /\ LocIdle /\ CtxInit /\ AbsIdle
    /\ PipeIdle /\ TblIdle /\ GeoIdle
SpecCtx == SpecCtxInit /\ [][CtxNext]_vars

(* C11: at every point of _process_contexts the flushed windows lie within
   [0, len(text)], are sorted by start offset and are pairwise
   non-overlapping: a later window starts at or after the end of every
   earlier one. *)
C11_FlushedWindows ==
    \A i \in 1 .. Len(contexts) :
        /\ 0 <= contexts[i].start /\ contexts[i].start <= contexts[i].end
        /\ contexts[i].end <= text_length
        /\ \A j \in i + 1 .. Len(contexts) :
              /\ contexts[i].start <= contexts[j].start
              /\ contexts[i].end <= contexts[j].start

\* three matches: two windows merged, then a separate window flushed
C11_Witness ==
    /\ ctx_pc = "done" /\ Len(matches) = 3 /\ Len(contexts) = 2
    /\ contexts[2].end = text_length

\* the window of a match expanded by the fixed margin, clipped to the text
ExpandedWindow(m) ==
    Span(Max(0, m.start - FixedWindow), Min(text_length, m.end + FixedWindow))

(* C12 as stated: with exactly two matches find_contexts returns one merged
   region when the expanded windows overlap (share a character), and the two
   regions joined by one space when they do not. *)
C12_MergeIffOverlap ==
    (ctx_pc = "done" /\ Len(matches) = 2)
        => LET w1 == ExpandedWindow(matches[1])
               w2 == ExpandedWindow(matches[2])
           IN  IF w2.start < w1.end
               THEN ctx_result = <<Slice(Span(w1.start, Max(w1.end, w2.end)))>>
               ELSE ctx_result = <<Slice(w1), Space, Slice(w2)>>

(* C12 amended: with exactly two matches find_contexts returns one merged
   region when the second expanded window starts at or before the end of the
   first (the windows overlap or are adjacent), and the two regions joined by
   one space when the second starts after the end of the first. *)
C12_MergeIffOverlapOrAdjacent ==
    (ctx_pc = "done" /\ Len(matches) = 2)
        => LET w1 == ExpandedWindow(matches[1])
               w2 == ExpandedWindow(matches[2])
           IN  IF w2.start <= w1.end
               THEN ctx_result = <<Slice(Span(w1.start, Max(w1.end, w2.end)))>>
               ELSE ctx_result = <<Slice(w1), Space, Slice(w2)>>

\* two matches whose windows are adjacent: one region is returned
C12_Witness ==
    /\ ctx_pc = "done" /\ Len(matches) = 2
    /\ ExpandedWindow(matches[2]).start = ExpandedWindow(matches[1]).end
    /\ Len(ctx_result) = 1

\* the merged windows of the matches ms[i..] for a given margin, acc being the
\* windows merged so far
RECURSIVE WindowsWithMargin(_, _, _, _, _)
WindowsWithMargin(ms, len, margin, i, acc) ==
    IF i > Len(ms) THEN acc
    ELSE LET w == Span(Max(0, ms[i].start - margin), Min(len, ms[i].end + margin))
             n == Len(acc)
         IN  IF n > 0 /\ w.start <= acc[n].end
             THEN WindowsWithMargin(ms, len, margin, i + 1,
                      [acc EXCEPT ![n] = Span(acc[n].start, Max(acc[n].end, w.end))])
             ELSE WindowsWithMargin(ms, len, margin, i + 1, Append(acc, w))

(* C13: whatever window is given to the constructor, the string find_contexts
   returns is the one computed with a margin of exactly 4000 characters. *)
C13_WindowIgnored ==
    ctx_pc = "done"
        => ctx_result =
               JoinContexts(WindowsWithMargin(matches, text_length, 4000, 1, <<>>))

\* a run with an integer window other than 4000 that returns two regions
C13_Witness ==
    /\ ctx_pc = "done" /\ window.kind = "int" /\ window.value # 4000
    /\ Len(ctx_result) = 3

(***************************************************************************)
(* abstract_extractor (abstract_extractor.py).  A word's text is the       *)
(* sequence of its characters; indices are Python's (from 0), and -1       *)
(* stands for None.                                                        *)
(***************************************************************************)
\* at most MaxBody words follow the abstract heading
MaxBody == 10

kwAbstract == <<"a", "b", "s", "t", "r", "a", "c", "t">>
kwResumen == <<"r", "e", "s", "u", "m", "e", "n">>
\* for keyword in ["abstract", "resumen"]
AbstractKeywords == <<kwAbstract, kwResumen>>

tAbstract == <<"A", "b", "s", "t", "r", "a", "c", "t">>
tAbstractColon == <<"A", "B", "S", "T", "R", "A", "C", "T", ":">>
tResumen == <<"R", "e", "s", "u", "m", "e", "n">>
tTitle == <<"G", "e", "o">>
tHeader == <<"I", "n", "t", "r", "o">>
BodyLetters == <<"a", "b", "c", "d", "e", "f", "g", "h", "i", "j", "k", "l">>
tBody(k) == <<"w", BodyLetters[((k - 1) % Len(BodyLetters)) + 1]>>

\* str.lower() on one character
LowerChar(c) ==
    CASE c = "A" -> "a" [] c = "B" -> "b" [] c = "C" -> "c" [] c = "E" -> "e"
      [] c = "G" -> "g" [] c = "I" -> "i" [] c = "M" -> "m" [] c = "N" -> "n"
      [] c = "R" -> "r" [] c = "S" -> "s" [] c = "T" -> "t" [] c = "U" -> "u"
      [] OTHER -> c

\* word[4].lower()
LowerWord(t) == [k \in DOMAIN t |-> LowerChar(t[k])]

\* one word per letter: "A B S T R A C T"
Spaced(t) == [k \in DOMAIN t |-> <<t[k]>>]

\* the heading words of page one: none, the keyword in one word, or spelled
\* with one word per letter
Headings ==
    {<<>>, <<tAbstract>>, <<tAbstractColon>>, Spaced(tAbstract), <<tResumen>>,
     Spaced(tResumen)}

\* word height, distance between the tops of two lines, words per line
Layouts ==
    {[height |-> h, pitch |-> h + d, per_line |-> l] :
        h \in {4, 10}, d \in {2, 8}, l \in {4, 20}}

\* where the word after the body sits: far right on the same line, at the
\* start of the next line, at the start of a new block further down, or
\* right after the last word
HeaderKinds == {"none", "same_line", "next_line", "new_block", "adjacent"}

\* the words of texts laid out left to right, line after line
Placed(texts, lay) ==
    [k \in DOMAIN texts |->
        Word(((k - 1) % lay.per_line) * 33,
             50 + ((k - 1) \div lay.per_line) * lay.pitch,
             ((k - 1) % lay.per_line) * 33 + 30,
             50 + ((k - 1) \div lay.per_line) * lay.pitch + lay.height,
             texts[k])]

HeaderWord(last, kind, lay) ==
    CASE kind = "same_line" ->
            Word(last.x1 + 40, last.y0, last.x1 + 70, last.y1, tHeader)
      [] kind = "next_line" ->
            Word(0, last.y0 + lay.pitch, 30, last.y1 + lay.pitch, tHeader)
      [] kind = "new_block" ->
            Word(0, last.y1 + 20, 30, last.y1 + 20 + lay.height, tHeader)
      [] OTHER ->
            Word(last.x1 + 3, last.y0, last.x1 + 33, last.y1, tHeader)

\* page.get_text("words") of page one: an optional title word, the heading,
\* n body words and an optional next-section header word
FirstPage(title, heading, n, lay, kind) ==
    LET texts == title \o heading \o [k \in 1 .. n |-> tBody(k)]
        words == Placed(texts, lay)
    IN  IF kind = "none" \/ words = <<>> THEN words
        ELSE Append(words, HeaderWord(words[Len(words)], kind, lay))

FirstPages ==
    {FirstPage(title, heading, n, lay, kind) :
        title \in {<<>>, <<tTitle>>}, heading \in Headings, n \in 0 .. MaxBody,
        lay \in Layouts, kind \in HeaderKinds}

\* pages with two headings: a heading, up to one body word, another heading
\* and two body words
TwoHeadingPages ==
    {Placed(first \o [k \in 1 .. n |-> tBody(k)] \o second
                \o <<tBody(n + 1), tBody(n + 2)>>, lay) :
        first \in Headings \ {<<>>}, second \in Headings \ {<<>>}, n \in 0 .. 1,
        lay \in Layouts}

AbsInit ==
    /\ abs_page_text \in FirstPages \cup TwoHeadingPages
    /\ keyword_i = 1 /\ abstract_start_index = -1 /\ abs_pc = "method1"
    /\ abs_result = [kind |-> "none", text |-> <<>>]

Abs(x) == IF x >= 0 THEN x ELSE -x
MinOf(S) == CHOOSE x \in S : \A y \in S : x <= y

\* keyword in word[4].lower()
Contains(t, kw) ==
    \E o \in 0 .. Len(t) - Len(kw) : SubSeq(t, o + 1, o + Len(kw)) = kw

\* "".join(texts)
RECURSIVE ConcatTexts(_)
ConcatTexts(ts) == IF ts = <<>> THEN <<>> ELSE ts[1] \o ConcatTexts(Tail(ts))

\* indices i with keyword.lower() in page_text[i][4].lower()
SingleWordHits(page, kw) ==
    {i \in 0 .. Len(page) - 1 : Contains(LowerWord(page[i + 1].text), kw)}

\* indices i in range(len(page_text) - (keyword_length - 1)) whose
\* keyword_length words spell the keyword
SpacedHits(page, kw) ==
    {i \in 0 .. Len(page) - (Len(kw) - 1) - 1 :
        ConcatTexts([k \in 1 .. Len(kw) |-> LowerWord(page[i + k].text)]) = kw}

DiscontinuityHorizontalOnly(a, b) == Abs(a.x1 - b.x0) > 20

\* abs(right_x - left_x) > 20 and abs(left_y - right_y) > 5
Discontinuity(a, b) == Abs(a.x1 - b.x0) > 20 /\ Abs(b.y0 - a.y1) > 5

\* for i in range(len(bbox)): bbox[i + 1] is out of range at the last index
BboxCalculatorFullRange(bbox) ==
    LET hits == {i \in 0 .. Len(bbox) - 2 : Discontinuity(bbox[i + 1], bbox[i + 2])}
    IN  [raises |-> hits = {} /\ bbox # <<>>,
         index |-> IF hits # {} THEN MinOf(hits) ELSE Len(bbox) - 1]

\* bbox_calculator: the first index followed by a discontinuity, else the
\* last index (-1 for an empty list); raises tells an IndexError
bbox_calculator(bbox) ==
    LET hits == {i \in 0 .. Len(bbox) - 2 : Discontinuity(bbox[i + 1], bbox[i + 2])}
    IN  [raises |-> FALSE,
         index |-> IF hits # {} THEN MinOf(hits) ELSE Len(bbox) - 1]

AbstractTextFromKeyword(page, idx) == SubSeq(page, idx + 1, Len(page))

\* abstract_text = page_text[abstract_start_index + 1 :]
AbstractText(page, idx) == SubSeq(page, idx + 2, Len(page))

\* " ".join(word[4] for word in words)
JoinWords(words) == JoinTexts([k \in DOMAIN words |-> words[k].text])

AbsOnly == UNCHANGED <<chunkVars, extractVars, pageVars, locVars, ctxVars, pipeVars,
    tblVars, geoVars>>

\* method 1 finds the keyword inside one word
SingleWordFound ==
    /\ abs_pc = "method1"
    /\ SingleWordHits(abs_page_text, AbstractKeywords[keyword_i]) # {}
    /\ abstract_start_index' =
           MinOf(SingleWordHits(abs_page_text, AbstractKeywords[keyword_i]))
    /\ abs_pc' = "extract"
    /\ UNCHANGED <<abs_page_text, keyword_i, abs_result>>
    /\ AbsOnly

\* start_idx is None: go on to method 2
SingleWordNotFound ==
    /\ abs_pc = "method1"
    /\ SingleWordHits(abs_page_text, AbstractKeywords[keyword_i]) = {}
    /\ abs_pc' = "method2"
    /\ UNCHANGED <<abs_page_text, keyword_i, abstract_start_index, abs_result>>
    /\ AbsOnly

\* method 2 finds the keyword spelled over keyword_length words
SpacedFound ==
    /\ abs_pc = "method2"
    /\ SpacedHits(abs_page_text, AbstractKeywords[keyword_i]) # {}
    /\ abstract_start_index' =
           MinOf(SpacedHits(abs_page_text, AbstractKeywords[keyword_i]))
           + (Len(AbstractKeywords[keyword_i]) - 1)
    /\ abs_pc' = "extract"
    /\ UNCHANGED <<abs_page_text, keyword_i, abs_result>>
    /\ AbsOnly

\* neither method found this keyword: next keyword, or leave the loop
SpacedNotFound ==
    /\ abs_pc = "method2"
    /\ SpacedHits(abs_page_text, AbstractKeywords[keyword_i]) = {}
    /\ IF keyword_i < Len(AbstractKeywords)
       THEN keyword_i' = keyword_i + 1 /\ abs_pc' = "method1"
       ELSE keyword_i' = keyword_i /\ abs_pc' = "extract"
    /\ UNCHANGED <<abs_page_text, abstract_start_index, abs_result>>
    /\ AbsOnly

\* if abstract_start_index is not None: cut the candidate words and join them
ReturnAbstract ==
    /\ abs_pc = "extract" /\ abstract_start_index # -1
    /\ LET abstract_text == AbstractText(abs_page_text, abstract_start_index)
           abstract_end_idx == bbox_calculator(abstract_text)
       IN  abs_result' =
               IF abstract_end_idx.raises
               THEN [kind |-> "raised", text |-> <<>>]
               ELSE [kind |-> "returned",
                     text |-> JoinWords(SubSeq(abstract_text, 1,
                                               abstract_end_idx.index + 1))]
    /\ abs_pc' = "done"
    /\ UNCHANGED <<abs_page_text, keyword_i, abstract_start_index>>
    /\ AbsOnly

\* else: return ""
ReturnNoAbstract ==
    /\ abs_pc = "extract" /\ abstract_start_index = -1
    /\ abs_result' = [kind |-> "returned", text |-> <<>>]
    /\ abs_pc' = "done"
    /\ UNCHANGED <<abs_page_text, keyword_i, abstract_start_index>>
    /\ AbsOnly

AbsNext ==
    \/ SingleWordFound
    \/ SingleWordNotFound
    \/ SpacedFound
    \/ SpacedNotFound
    \/ ReturnAbstract
    \/ ReturnNoAbstract

SpecAbsInit ==
    ChunkIdle /\ ExtractIdle /\ PageIdle /\ LocIdle /\ CtxIdle /\ AbsInit
    /\ PipeIdle /\ TblIdle /\ GeoIdle
SpecAbs == SpecAbsInit /\ [][AbsNext]_vars

\* some word contains "abstract" or "resumen", or some run of words spells it
KeywordMatchExists ==
    \E k \in DOMAIN AbstractKeywords :
        \/ SingleWordHits(abs_page_text, AbstractKeywords[k]) # {}
        \/ SpacedHits(abs_page_text, AbstractKeywords[k]) # {}

(* C14: for every list of well-formed page-one words, the empty list and a
   list ending with the keyword included, abstract_extractor returns (it
   never raises), and it returns the empty string whenever no word contains
   "abstract" or "resumen" and no run of words spells one of them. *)
C14_NeverRaises ==
    abs_pc = "done"
        => /\ abs_result.kind = "returned"
           /\ ~KeywordMatchExists => abs_result.text = <<>>

\* the keyword is the last word of a non-empty page: the empty string
C14_Witness ==
    /\ abs_pc = "done" /\ Len(abs_page_text) > 1
    /\ abstract_start_index = Len(abs_page_text) - 1
    /\ abs_result = [kind |-> "returned", text |-> <<>>]

\* "Abstract", ten body words, then a word more than 20 units away
\* horizontally from the tenth body word
AbstractTenWordsGap ==
    /\ Len(abs_page_text) = 12
    /\ abs_page_text[1].text = tAbstract
    /\ \A k \in 2 .. 12 : ~Contains(LowerWord(abs_page_text[k].text), kwAbstract)
    /\ Abs(abs_page_text[11].x1 - abs_page_text[12].x0) > 20

(* C15 as stated: for the word "Abstract", ten body words and a next-section
   header word more than 20 units away horizontally from the tenth body
   word, abstract_extractor returns exactly the ten body words, joined by
   spaces. *)
C15_TenBodyWords ==
    (abs_pc = "done" /\ AbstractTenWordsGap)
        => abs_result =
               [kind |-> "returned", text |-> JoinWords(SubSeq(abs_page_text, 2, 11))]

(* C15 amended: for the word "Abstract", ten body words and a next-section
   header word whose left edge is more than 20 units away horizontally from
   the tenth body word's right edge and whose top edge is more than 5 units
   away vertically from the tenth body word's bottom edge, no two consecutive
   body words being separated in both of these ways, abstract_extractor
   returns exactly the ten body words, joined by spaces. *)
C15_TenBodyWordsBothGaps ==
    (/\ abs_pc = "done" /\ AbstractTenWordsGap
     /\ Abs(abs_page_text[12].y0 - abs_page_text[11].y1) > 5
     /\ \A k \in 2 .. 10 :
           ~(/\ Abs(abs_page_text[k].x1 - abs_page_text[k + 1].x0) > 20
             /\ Abs(abs_page_text[k + 1].y0 - abs_page_text[k].y1) > 5))
        => abs_result =
               [kind |-> "returned", text |-> JoinWords(SubSeq(abs_page_text, 2, 11))]

\* the ten body words wrap over three lines and the header opens a new block
C15_Witness ==
    /\ abs_pc = "done" /\ AbstractTenWordsGap
    /\ abs_page_text[11].y0 > abs_page_text[2].y0
    /\ Abs(abs_page_text[12].y0 - abs_page_text[11].y1) > 5
    /\ abs_result.text = JoinWords(SubSeq(abs_page_text, 2, 11))

\* the candidate words: those after the match index
Candidates == SubSeq(abs_page_text, abstract_start_index + 2, Len(abs_page_text))

\* candidate indices i (from 0) whose right edge is more than 20 units away
\* horizontally from the next word's left edge, and whose bottom edge is more
\* than 5 units away vertically from the next word's top edge
EndIndices ==
    {i \in 0 .. Len(Candidates) - 2 :
        /\ Abs(Candidates[i + 1].x1 - Candidates[i + 2].x0) > 20
        /\ Abs(Candidates[i + 2].y0 - Candidates[i + 1].y1) > 5}

(* C20: once a keyword is matched, the abstract ends at the first candidate
   index i where the horizontal distance between word i's right edge and word
   i+1's left edge exceeds 20 units and the vertical distance between word
   i's bottom edge and word i+1's top edge exceeds 5 units; the output is the
   candidate words 0..i, joined by spaces, and the whole candidate list when
   there is no such index. *)
C20_AbstractEnd ==
    (abs_pc = "done" /\ abstract_start_index # -1)
        => /\ abs_result.kind = "returned"
           /\ abs_result.text =
                  IF EndIndices # {}
                  THEN JoinWords(SubSeq(Candidates, 1, MinOf(EndIndices) + 1))
                  ELSE JoinWords(Candidates)

\* an abstract cut before the end of the candidates, after a wrap that is
\* far horizontally but not vertically
C20_Witness ==
    /\ abs_pc = "done" /\ abstract_start_index # -1 /\ EndIndices # {}
    /\ MinOf(EndIndices) + 1 < Len(Candidates)
    /\ \E i \in 0 .. MinOf(EndIndices) - 1 :
          Abs(Candidates[i + 1].x1 - Candidates[i + 2].x0) > 20

\* the indices of the words that contain "abstract" or "resumen"
SingleWordMatches ==
    UNION {SingleWordHits(abs_page_text, AbstractKeywords[k]) :
              k \in DOMAIN AbstractKeywords}

\* the start indices of the runs of words that spell "abstract" or "resumen"
SpacedMatches ==
    UNION {SpacedHits(abs_page_text, AbstractKeywords[k]) :
              k \in DOMAIN AbstractKeywords}

(* C21: when page one holds both a single word containing "abstract" or
   "resumen" and a run of words spelling one of them, the abstract starts
   after a single-word match. *)
C21_SingleWordFirst ==
    (abs_pc = "done" /\ SingleWordMatches # {} /\ SpacedMatches # {})
        => abstract_start_index \in SingleWordMatches

(* For one keyword the single-word match does come first: when a word
   contains "abstract", the abstract starts after the first such word,
   whatever runs of words spell a keyword. *)
C21_SingleWordFirstSameKeyword ==
    (abs_pc = "done" /\ SingleWordHits(abs_page_text, kwAbstract) # {})
        => abstract_start_index = MinOf(SingleWordHits(abs_page_text, kwAbstract))

(***************************************************************************)
(* The pipeline: extract_text followed by split_text_into_parts            *)
(* (text_preparation.py), run twice in one process.  The two runs share    *)
(* os.environ, which load_dotenv fills from the .env file; everything else *)
(* is local to a run.  An environment value is <<>> when the variable is   *)
(* unset and <<v>> when it is set to v; OVERLAP_PERCENTAGE is left unset.  *)
(* A text is known by its number of tokens, an output string by the tokens *)
(* of the abstract put in front and the token range of its chunk.          *)
(***************************************************************************)
\* the keyword contexts of a document's body have up to MaxContextTokens tokens
MaxContextTokens == 5
\* the abstract of a document has up to MaxAbstractTokens tokens
MaxAbstractTokens == 2

Runs == {1, 2}

\* what extract_text and find_text_surrounding_keywords yield for a document
PipeDocs ==
    {[abstract |-> a, context |-> c] :
        a \in {0, MaxAbstractTokens}, c \in {0, 2, MaxContextTokens}}

\* the variables split_text_into_parts reads, in the process environment and
\* in the .env file
Environments ==
    {[APPEND_ABSTRACT_TO_CONTEXT |-> a, MAX_TOKENS_PER_PART |-> m] :
        a \in {<<>>, <<"True">>, <<"False">>}, m \in {<<>>, <<0>>, <<2>>}}

PipeInit ==
    /\ environ \in Environments /\ dotenv \in Environments
    /\ environ0 = environ
    /\ pipe_doc \in [Runs -> PipeDocs]
    /\ pipe_pc = [r \in Runs |-> "start"]
    /\ pipe_text = [r \in Runs |-> [abstract |-> 0, context |-> 0]]
    /\ append_abstract_to_context = [r \in Runs |-> "unread"]
    /\ pipe_max = [r \in Runs |-> 0]
    /\ pipe_parts = [r \in Runs |-> <<>>]
    /\ pipe_result = [r \in Runs |-> [kind |-> "none"]]
    /\ overlapped = FALSE

\* os.environ.get(key, default)
EnvironGet(env, key, default) == IF env[key] = <<>> THEN default ELSE env[key][1]

\* load_dotenv(): a variable already set in the environment is kept
LoadDotenv(env, file) ==
    [key \in DOMAIN env |-> IF env[key] = <<>> THEN file[key] ELSE env[key]]

\* for i in range(num_parts), from part i on
RECURSIVE PartsFrom(_, _, _, _, _, _)
PartsFrom(i, n, start, bal, total, ov) ==
    IF i >= n THEN <<>>
    ELSE LET end_idx == EndIdx(i, n, start, bal, total)
         IN  <<[start |-> start, end |-> end_idx]>>
             \o (IF end_idx >= total THEN <<>>
                 ELSE PartsFrom(i + 1, n, NextStart(end_idx, ov), bal, total, ov))

BalancedPartsNoEmptyCheck(total, m, num, den) ==
    IF m <= 0 \/ ~(0 <= num /\ num < den)
    THEN [kind |-> "ValueError", parts |-> <<>>]
    ELSE IF total <= m
    THEN [kind |-> "returned", parts |-> <<[start |-> 0, end |-> total]>>]
    ELSE LET ov == (m * num) \div den
             n == NumParts(total, m, ov)
         IN  [kind |-> "returned",
              parts |-> PartsFrom(0, n, 0, BalancedTokens(total, n, ov), total, ov)]

\* split_text_into_balanced_parts on a text of total tokens, with
\* overlap_percentage = num / den
BalancedParts(total, m, num, den) ==
    IF total = 0 THEN [kind |-> "returned", parts |-> <<>>]
    ELSE IF m <= 0 \/ ~(0 <= num /\ num < den)
    THEN [kind |-> "ValueError", parts |-> <<>>]
    ELSE IF total <= m
    THEN [kind |-> "returned", parts |-> <<[start |-> 0, end |-> total]>>]
    ELSE LET ov == (m * num) \div den
             n == NumParts(total, m, ov)
         IN  [kind |-> "returned",
              parts |-> PartsFrom(0, n, 0, BalancedTokens(total, n, ov), total, ov)]

\* parts_with_abstract.append(part)
WithoutAbstract(abstract, ps) ==
    [k \in DOMAIN ps |-> [abstract |-> 0, chunk |-> ps[k]]]

\* parts_with_abstract.append(abstract + part)
WithAbstract(abstract, ps) ==
    [k \in DOMAIN ps |-> [abstract |-> abstract, chunk |-> ps[k]]]

PipeOnly ==
    UNCHANGED <<chunkVars, extractVars, pageVars, locVars, ctxVars, absVars, tblVars,
                geoVars>>

\* text = extract_text(pdf_path)
PipeExtractText(r) ==
    /\ pipe_pc[r] = "start"
    /\ pipe_text' = [pipe_text EXCEPT ![r] = pipe_doc[r]]
    /\ pipe_pc' = [pipe_pc EXCEPT ![r] = "read_append"]
    /\ overlapped' =
           (overlapped \/ \E q \in Runs \ {r} : pipe_pc[q] \notin {"start", "done"})
    /\ UNCHANGED <<environ, dotenv, environ0, pipe_doc, append_abstract_to_context,
                   pipe_max, pipe_parts, pipe_result>>
    /\ PipeOnly

\* split_text_into_parts, line 186: APPEND_ABSTRACT_TO_CONTEXT is read first
PipeReadAppend(r) ==
    /\ pipe_pc[r] = "read_append"
    /\ append_abstract_to_context' =
           [append_abstract_to_context EXCEPT
               ![r] = EnvironGet(environ, "APPEND_ABSTRACT_TO_CONTEXT", "True")]
    /\ pipe_pc' = [pipe_pc EXCEPT ![r] = "load_dotenv"]
    /\ UNCHANGED <<environ, dotenv, environ0, pipe_doc, pipe_text, pipe_max,
                   pipe_parts, pipe_result, overlapped>>
    /\ PipeOnly

\* find_text_surrounding_keywords: load_dotenv(), then the keyword contexts
PipeLoadDotenv(r) ==
    /\ pipe_pc[r] = "load_dotenv"
    /\ environ' = LoadDotenv(environ, dotenv)
    /\ pipe_pc' = [pipe_pc EXCEPT ![r] = "split"]
    /\ UNCHANGED <<dotenv, environ0, pipe_doc, pipe_text,
                   append_abstract_to_context, pipe_max, pipe_parts, pipe_result,
                   overlapped>>
    /\ PipeOnly

\* split_text_into_balanced_parts: MAX_TOKENS_PER_PART is read, the contexts
\* are chunked; a ValueError leaves split_text_into_parts
PipeSplitBalanced(r) ==
    /\ pipe_pc[r] = "split"
    /\ LET m == EnvironGet(environ, "MAX_TOKENS_PER_PART", 10000)
           res == BalancedParts(pipe_text[r].context, m, 15, 100)
       IN  /\ pipe_max' = [pipe_max EXCEPT ![r] = m]
           /\ pipe_parts' = [pipe_parts EXCEPT ![r] = res.parts]
           /\ IF res.kind = "ValueError"
              THEN /\ pipe_result' = [pipe_result EXCEPT ![r] = [kind |-> "ValueError"]]
                   /\ pipe_pc' = [pipe_pc EXCEPT ![r] = "done"]
              ELSE /\ pipe_result' = pipe_result
                   /\ pipe_pc' = [pipe_pc EXCEPT ![r] = "append"]
    /\ UNCHANGED <<environ, dotenv, environ0, pipe_doc, pipe_text,
                   append_abstract_to_context, overlapped>>
    /\ PipeOnly

\* if append_abstract_to_context == "True": the abstract goes in front
PipeAppendAbstract(r) ==
    /\ pipe_pc[r] = "append" /\ append_abstract_to_context[r] = "True"
    /\ pipe_result' =
           [pipe_result EXCEPT
               ![r] = [kind |-> "returned", abstract |-> pipe_text[r].abstract,
                       body |-> pipe_text[r].context,
                       parts |-> WithAbstract(pipe_text[r].abstract, pipe_parts[r])]]
    /\ pipe_pc' = [pipe_pc EXCEPT ![r] = "done"]
    /\ UNCHANGED <<environ, dotenv, environ0, pipe_doc, pipe_text,
                   append_abstract_to_context, pipe_max, pipe_parts, overlapped>>
    /\ PipeOnly

\* else: the parts are returned as they are
PipeKeepParts(r) ==
    /\ pipe_pc[r] = "append" /\ append_abstract_to_context[r] # "True"
    /\ pipe_result' =
           [pipe_result EXCEPT
               ![r] = [kind |-> "returned", abstract |-> pipe_text[r].abstract,
                       body |-> pipe_text[r].context,
                       parts |-> WithoutAbstract(pipe_text[r].abstract, pipe_parts[r])]]
    /\ pipe_pc' = [pipe_pc EXCEPT ![r] = "done"]
    /\ UNCHANGED <<environ, dotenv, environ0, pipe_doc, pipe_text,
                   append_abstract_to_context, pipe_max, pipe_parts, overlapped>>
    /\ PipeOnly

PipeNext ==
    \E r \in Runs :
        \/ PipeExtractText(r)
        \/ PipeReadAppend(r)
        \/ PipeLoadDotenv(r)
        \/ PipeSplitBalanced(r)
        \/ PipeAppendAbstract(r)
        \/ PipeKeepParts(r)

SpecPipeInit ==
    /\ ChunkIdle /\ ExtractIdle /\ PageIdle /\ LocIdle /\ CtxIdle /\ AbsIdle
    /\ PipeInit /\ TblIdle /\ GeoIdle
SpecPipe == SpecPipeInit /\ [][PipeNext]_vars

PipeDone == \A r \in Runs : pipe_pc[r] = "done"

(* C16: two runs of extract_text and split_text_into_parts, one after the
   other, on the same document with the same environment and .env file
   yield the same abstract, body text and sequence of output strings. *)
C16_Deterministic ==
    (PipeDone /\ ~overlapped /\ pipe_doc[1] = pipe_doc[2])
        => pipe_result[1] = pipe_result[2]

(* Once every variable of the .env file is in the environment before the
   first run, two runs on the same document yield the same result. *)
C16_DeterministicWhenLoaded ==
    (PipeDone /\ pipe_doc[1] = pipe_doc[2] /\ LoadDotenv(environ0, dotenv) = environ0)
        => pipe_result[1] = pipe_result[2]

\* a lower bound of the tokens of an output string: the tokens of the
\* abstract and of the chunk, less one where the two meet
MinTokens(p) ==
    IF p.abstract > 0 /\ PartLen(p.chunk) > 0
    THEN p.abstract + PartLen(p.chunk) - 1
    ELSE p.abstract + PartLen(p.chunk)

(* C17: every string split_text_into_parts returns has at most
   MAX_TOKENS_PER_PART tokens, with the abstract in front or not; when
   APPEND_ABSTRACT_TO_CONTEXT is "True" each string is the abstract followed
   by the corresponding chunk, otherwise it is the chunk itself. *)
C17_WithinBudget ==
    \A r \in Runs :
        (pipe_pc[r] = "done" /\ pipe_result[r].kind = "returned")
            => /\ Len(pipe_result[r].parts) = Len(pipe_parts[r])
               /\ \A k \in DOMAIN pipe_result[r].parts :
                     /\ MinTokens(pipe_result[r].parts[k]) <= pipe_max[r]
                     /\ pipe_result[r].parts[k] =
                            [abstract |-> IF append_abstract_to_context[r] = "True"
                                          THEN pipe_text[r].abstract ELSE 0,
                             chunk |-> pipe_parts[r][k]]

\* what a run on document d returns when nothing else runs in the process
AloneResult(d) ==
    LET append == EnvironGet(environ0, "APPEND_ABSTRACT_TO_CONTEXT", "True")
        m == EnvironGet(LoadDotenv(environ0, dotenv), "MAX_TOKENS_PER_PART", 10000)
        res == BalancedParts(d.context, m, 15, 100)
    IN  IF res.kind = "ValueError" THEN [kind |-> "ValueError"]
        ELSE [kind |-> "returned", abstract |-> d.abstract, body |-> d.context,
              parts |-> IF append = "True" THEN WithAbstract(d.abstract, res.parts)
                        ELSE WithoutAbstract(d.abstract, res.parts)]

(* C18: under every interleaving of the steps of two runs on different
   documents, each run returns the abstract, body text and output strings it
   returns when run alone. *)
C18_SameAsAlone ==
    (PipeDone /\ pipe_doc[1] # pipe_doc[2])
        => \A r \in Runs : pipe_result[r] = AloneResult(pipe_doc[r])

\* find_text_surrounding_keywords gave run r the empty string: the body is
\* empty or holds no keyword
NoKeywordContext(r) == pipe_text[r].context = 0

(* C29: when the body text holds no keyword match, or is empty,
   split_text_into_parts returns an empty sequence of parts, even when the
   abstract is not empty and APPEND_ABSTRACT_TO_CONTEXT is "True": the
   abstract alone is never a part. *)
C29_NoPartsWithoutContext ==
    \A r \in Runs :
        (pipe_pc[r] = "done" /\ NoKeywordContext(r))
            => pipe_result[r].kind = "returned" /\ pipe_result[r].parts = <<>>

\* a run with an abstract, the abstract to be put in front, and no context
C29_Witness ==
    \E r \in Runs :
        /\ pipe_pc[r] = "done" /\ NoKeywordContext(r)
        /\ pipe_text[r].abstract > 0 /\ append_abstract_to_context[r] = "True"
        /\ pipe_result[r].kind = "returned" /\ pipe_result[r].parts = <<>>

(***************************************************************************)
(* extract_tables (table_extractor.py), on one page.  A span's text is a   *)
(* sequence of atoms, as in extract_text; a drawing item is its kind and   *)
(* its rectangle.  All the elements carry the number of this page, so the  *)
(* grouping by page of group_table_elements has one group.                 *)
(***************************************************************************)
\* a page has up to MaxSpans text spans and up to MaxDrawings drawing items
MaxSpans == 2
MaxDrawings == 3

Digits == {"0", "1", "2", "3", "4", "5", "6", "7", "8", "9"}

TextSpan(t, y, dir) == [text |-> t, y |-> y, dir |-> dir]
Item(kind, x0, y0, x1, y1) == [kind |-> kind, x0 |-> x0, y0 |-> y0, x1 |-> x1, y1 |-> y1]
Rect(x0, y0, x1, y1) == [x0 |-> x0, y0 |-> y0, x1 |-> x1, y1 |-> y1]

\* captions at three heights (one of them in a vertical line of text), a
\* sentence that mentions a table, vertical text without "Table" and a
\* vertical heading with "Table" that is no caption
SpanChoices ==
    << TextSpan(<<"Table", " ", "2", ":", " ">>, 200, "horizontal"),
       TextSpan(<<"Table", " ", "1">>, 100, "horizontal"),
       TextSpan(<<"Table", " ", "3">>, 300, "vertical"),
       TextSpan(<<"see", " ", "Table", " ", "1">>, 120, "horizontal"),
       TextSpan(<<"Results">>, 90, "vertical"),
       TextSpan(<<"Table", " ", "A">>, 130, "vertical") >>

\* rules below, at and above the captions, rules one and three units apart,
\* a tall rectangle, a rule in the top margin and a curve
DrawingChoices ==
    << Item("l", 10, 250, 200, 250), Item("l", 10, 150, 100, 150),
       Item("l", 90, 151, 300, 151), Item("re", 5, 153, 50, 154),
       Item("l", 20, 101, 80, 101), Item("l", 20, 95, 80, 95),
       Item("re", 10, 140, 300, 260), Item("l", 10, 40, 200, 40),
       Item("c", 10, 160, 200, 160) >>

RECURSIVE Pick(_, _, _)
\* the choices whose index is in I, from index k on, in the order of choices
Pick(choices, I, k) ==
    IF k > Len(choices) THEN <<>>
    ELSE (IF k \in I THEN <<choices[k]>> ELSE <<>>) \o Pick(choices, I, k + 1)

\* the lists of at most n of the choices
Selections(choices, n) ==
    {Pick(choices, I, 1) : I \in {J \in SUBSET DOMAIN choices : Cardinality(J) <= n}}

TblInit ==
    /\ tbl_spans \in Selections(SpanChoices, MaxSpans)
    /\ tbl_drawings \in Selections(DrawingChoices, MaxDrawings)
    /\ tbl_pc = "start" /\ table_coordinates = <<>>
    /\ line_coordinates = [vertical |-> FALSE, lines |-> <<>>]
    /\ grouped_elements = <<>> /\ tbl_result = [none |-> TRUE, items |-> <<>>]

\* "Table" in page.get_text("text")
HasTableText(spans) == \E k \in DOMAIN spans : \E a \in DOMAIN spans[k].text :
                           spans[k].text[a] = "Table"

\* pattern.fullmatch(text) for ^Table \d[:]?\s*$|^Table \d[:]?\s*
FullMatch(t) ==
    /\ Len(t) >= 3 /\ t[1] = "Table" /\ t[2] = " " /\ t[3] \in Digits
    /\ \A a \in 4 .. Len(t) : t[a] = " " \/ (a = 4 /\ t[a] = ":")

\* table_coordinates: [span["text"], span["bbox"][1], page.number] per caption
TableCoordinates(spans) == SelectSeq(spans, LAMBDA s : FullMatch(s.text))

VerticalDominantReversed(spans) ==
    Cardinality({k \in DOMAIN spans : spans[k].dir = "vertical"})
        < Cardinality({k \in DOMAIN spans : spans[k].dir = "horizontal"})

\* horizontal_count < vertical_count
VerticalDominant(spans) ==
    Cardinality({k \in DOMAIN spans : spans[k].dir = "horizontal"})
        < Cardinality({k \in DOMAIN spans : spans[k].dir = "vertical"})

\* bbox += (-1, -1, 1, 1)
Adjusted(it) == Rect(it.x0 - 1, it.y0 - 1, it.x1 + 1, it.y1 + 1)

\* 50 < bbox[1] < 720 and abs(bbox[1] - bbox[3]) < 10
KeptSegment(b) == 50 < b.y0 /\ b.y0 < 720 /\ Abs(b.y0 - b.y1) < 10

\* line_coordinates before the vertical test
LineCoordinates(drawings) ==
    LET lines == SelectSeq(drawings, LAMBDA it : it.kind \in {"re", "l"})
    IN  SelectSeq([k \in DOMAIN lines |-> Adjusted(lines[k])], KeptSegment)

\* sorted(s, key=...): stable, Before being the strict order of the keys
StableSort(s, Before(_, _)) ==
    LET pos(i) == 1 + Cardinality({j \in DOMAIN s :
                         Before(s[j], s[i]) \/ (~Before(s[i], s[j]) /\ j < i)})
    IN  [k \in DOMAIN s |-> s[CHOOSE i \in DOMAIN s : pos(i) = k]]

MinOfSeq(s) == CHOOSE x \in {s[k] : k \in DOMAIN s} : \A k \in DOMAIN s : x <= s[k]
MaxOfSeq(s) == CHOOSE x \in {s[k] : k \in DOMAIN s} : \A k \in DOMAIN s : x >= s[k]

SamePlaneWide(next_y, current_y) == Abs(next_y - current_y) <= 3

\* abs(next_y - current_y) <= tolerance, tolerance = 2
SamePlane(next_y, current_y) == Abs(next_y - current_y) <= 2

RECURSIVE MergedLines(_, _)
\* the while loop of lines 96-118 from index i on: each group starts at a
\* line and takes the following lines on the plane of that first line
MergedLines(lines_sorted, i) ==
    IF i > Len(lines_sorted) THEN <<>>
    ELSE LET current_y == lines_sorted[i].y0
             stops == {j \in i + 1 .. Len(lines_sorted) :
                          ~SamePlane(lines_sorted[j].y0, current_y)}
             j == IF stops = {} THEN Len(lines_sorted) + 1 ELSE MinOf(stops)
             current_group == SubSeq(lines_sorted, i, j - 1)
         IN  <<Rect(MinOfSeq([k \in DOMAIN current_group |-> current_group[k].x0]),
                    current_y,
                    MaxOfSeq([k \in DOMAIN current_group |-> current_group[k].x1]),
                    current_y)>>
             \o MergedLines(lines_sorted, j)

\* lines_by_page[page] after the merge
Bands(lines) == MergedLines(StableSort(lines, LAMBDA a, b : a.y0 < b.y0), 1)

BelowAnchorOrAt(y, table_y, last, next_y) == table_y <= y /\ (last \/ y < next_y)

\* table[1] < line[1] < next_y, next_y being infinite after the last anchor
BelowAnchor(y, table_y, last, next_y) == table_y < y /\ (last \/ y < next_y)

\* group_table_elements: the bands of each caption, captions without a band
\* left out
group_table_elements(lines, tables) ==
    LET bands == Bands(lines)
        sorted_tables == StableSort(tables, LAMBDA a, b : a.y < b.y)
        n == Len(sorted_tables)
        bbox(i) == SelectSeq(bands, LAMBDA l :
                       BelowAnchor(l.y0, sorted_tables[i].y, i = n,
                                   sorted_tables[IF i = n THEN i ELSE i + 1].y))
    IN  SelectSeq([i \in 1 .. n |-> bbox(i)], LAMBDA b : b # <<>>)

SameGroupNarrow(y, last_y) == Abs(y - last_y) <= 2

\* abs(rect[1] - current_group[-1][1]) <= 3
SameGroup(y, last_y) == Abs(y - last_y) <= 3

\* one box per element: the first band's edges and height, down to the first
\* band of the last group
TableBox(page_rectangles) ==
    LET sorted_rectangles ==
            StableSort(page_rectangles,
                       LAMBDA a, b : a.y0 < b.y0 \/ (a.y0 = b.y0 /\ a.x0 < b.x0))
        starts == {1} \cup {k \in 2 .. Len(sorted_rectangles) :
                      ~SameGroup(sorted_rectangles[k].y0, sorted_rectangles[k - 1].y0)}
        last_group == CHOOSE k \in starts : \A q \in starts : q <= k
    IN  Box(sorted_rectangles[1].x0, sorted_rectangles[1].y0,
            sorted_rectangles[1].x1, sorted_rectangles[last_group].y0)

\* create_table_bounding_boxes
create_table_bounding_boxes(rectangles) ==
    [k \in DOMAIN rectangles |-> TableBox(rectangles[k])]

TblOnly ==
    UNCHANGED <<chunkVars, extractVars, pageVars, locVars, ctxVars, absVars, pipeVars,
                geoVars>>

\* if "Table" not in page.get_text("text"): return None
NoTableText ==
    /\ tbl_pc = "start" /\ ~HasTableText(tbl_spans)
    /\ tbl_result' = [none |-> TRUE, items |-> <<>>] /\ tbl_pc' = "done"
    /\ UNCHANGED <<tbl_spans, tbl_drawings, table_coordinates, line_coordinates,
                   grouped_elements>>
    /\ TblOnly

\* extract_table_data, lines 23-55: captions, kept segments, vertical test
ExtractTableData ==
    /\ tbl_pc = "start" /\ HasTableText(tbl_spans)
    /\ table_coordinates' = TableCoordinates(tbl_spans)
    /\ line_coordinates' =
           IF VerticalDominant(tbl_spans) THEN [vertical |-> TRUE, lines |-> <<>>]
           ELSE [vertical |-> FALSE, lines |-> LineCoordinates(tbl_drawings)]
    /\ tbl_pc' = "data"
    /\ UNCHANGED <<tbl_spans, tbl_drawings, grouped_elements, tbl_result>>
    /\ TblOnly

\* line_coordinates and table_coordinates are not both truthy: None
NoTableData ==
    /\ tbl_pc = "data"
    /\ \/ table_coordinates = <<>>
       \/ ~line_coordinates.vertical /\ line_coordinates.lines = <<>>
    /\ tbl_result' = [none |-> TRUE, items |-> <<>>] /\ tbl_pc' = "done"
    /\ UNCHANGED <<tbl_spans, tbl_drawings, table_coordinates, line_coordinates,
                   grouped_elements>>
    /\ TblOnly

\* if line_coordinates == "vertical": the page's rectangle, then its number
VerticalPage ==
    /\ tbl_pc = "data" /\ table_coordinates # <<>> /\ line_coordinates.vertical
    /\ tbl_result' = [none |-> FALSE, items |-> <<Box(0, 0, 595, 842), PageNumber>>]
    /\ tbl_pc' = "done"
    /\ UNCHANGED <<tbl_spans, tbl_drawings, table_coordinates, line_coordinates,
                   grouped_elements>>
    /\ TblOnly

\* grouped_elements = group_table_elements(line_coordinates, table_coordinates)
GroupTableElements ==
    /\ tbl_pc = "data" /\ table_coordinates # <<>>
    /\ ~line_coordinates.vertical /\ line_coordinates.lines # <<>>
    /\ grouped_elements' =
           group_table_elements(line_coordinates.lines, table_coordinates)
    /\ tbl_pc' = "grouped"
    /\ UNCHANGED <<tbl_spans, tbl_drawings, table_coordinates, line_coordinates,
                   tbl_result>>
    /\ TblOnly

\* return create_table_bounding_boxes(grouped_elements)
CreateTableBoundingBoxes ==
    /\ tbl_pc = "grouped"
    /\ tbl_result' =
           [none |-> FALSE, items |-> create_table_bounding_boxes(grouped_elements)]
    /\ tbl_pc' = "done"
    /\ UNCHANGED <<tbl_spans, tbl_drawings, table_coordinates, line_coordinates,
                   grouped_elements>>
    /\ TblOnly

TblNext ==
    \/ NoTableText
    \/ ExtractTableData
    \/ NoTableData
    \/ VerticalPage
    \/ GroupTableElements
    \/ CreateTableBoundingBoxes

SpecTblInit ==
    /\ ChunkIdle /\ ExtractIdle /\ PageIdle /\ LocIdle /\ CtxIdle /\ AbsIdle
    /\ PipeIdle /\ TblInit /\ GeoIdle
SpecTbl == SpecTblInit /\ [][TblNext]_vars

\* the vertical positions of the page's caption anchors
AnchorYs == {tbl_spans[k].y : k \in {i \in DOMAIN tbl_spans : FullMatch(tbl_spans[i].text)}}

\* the page's bands: its kept rule segments, merged
PageBands ==
    LET bands == Bands(LineCoordinates(tbl_drawings))
    IN  {bands[k] : k \in DOMAIN bands}

\* y lies strictly below the anchor at a and above the next anchor
BetweenAnchors(y, a) == a < y /\ \A b \in AnchorYs : b > a => y < b

ReportsNoTables == tbl_result.items = <<>>

IsFullPage ==
    /\ Len(tbl_result.items) = 2 /\ ~tbl_result.items[2].box

\* each box stands on bands between one anchor and the next, and no two boxes
\* on the same anchor
BoxesFromAnchoredBands ==
    (~tbl_result.none /\ ~IsFullPage)
        => \E f \in [DOMAIN tbl_result.items -> AnchorYs] :
              /\ \A k, q \in DOMAIN f : f[k] = f[q] => k = q
              /\ \A k \in DOMAIN f :
                    LET b == tbl_result.items[k]
                    IN  /\ BetweenAnchors(b.y0, f[k]) /\ BetweenAnchors(b.y1, f[k])
                        /\ \E band \in PageBands :
                              band.y0 = b.y0 /\ band.x0 = b.x0 /\ band.x1 = b.x1
                        /\ \E band \in PageBands : band.y0 = b.y1

(* C19 as stated: a page with no matching caption or no kept rule segment
   reports no tables; otherwise every returned box that is not the full page
   is built from bands strictly below a caption anchor of the page and above
   the next anchor, with at most one box per anchor. *)
C19_NoTableWithoutAnchor ==
    tbl_pc = "done"
        => /\ (AnchorYs = {} \/ LineCoordinates(tbl_drawings) = <<>>)
                 => ReportsNoTables
           /\ BoxesFromAnchoredBands

(* C19 amended: a page with no matching caption, or with no kept rule
   segment and not more vertical than horizontal spans, reports no tables;
   otherwise every returned box that is not the full page is built from
   bands strictly below a caption anchor of the page and above the next
   anchor, with at most one box per anchor. *)
C19_NoTableWithoutAnchorUnlessVertical ==
    tbl_pc = "done"
        => /\ (\/ AnchorYs = {}
               \/ LineCoordinates(tbl_drawings) = <<>> /\ ~VerticalDominant(tbl_spans))
                 => ReportsNoTables
           /\ BoxesFromAnchoredBands

\* two captions, each with a band below it, and a band above both: two boxes
C19_Witness ==
    /\ tbl_pc = "done" /\ Len(tbl_result.items) = 2 /\ ~IsFullPage
    /\ \E band \in PageBands : \A a \in AnchorYs : band.y0 < a

\* the page has more spans in vertical lines of text than in horizontal ones
MoreVerticalSpans ==
    Len(SelectSeq(tbl_spans, LAMBDA sp : sp.dir = "vertical"))
        > Len(SelectSeq(tbl_spans, LAMBDA sp : sp.dir = "horizontal"))

\* the full-page result: the page's rectangle (0, 0, width, height)
FullPageBox == IsFullPage /\ tbl_result.items[1] = Box(0, 0, 595, 842)

(* C22 as stated: for a page whose text contains "Table" and which has more
   vertical-direction than horizontal-direction spans, extract_tables
   returns the full-page bounding box. *)
C22_VerticalFullPage ==
    (tbl_pc = "done" /\ HasTableText(tbl_spans) /\ MoreVerticalSpans) => FullPageBox

(* C22 amended: for a page whose text contains "Table", which has a span
   matching the caption pattern and more vertical-direction than
   horizontal-direction spans, extract_tables returns the full-page bounding
   box, whatever rule segments the page has. *)
C22_VerticalFullPageWithCaption ==
    (tbl_pc = "done" /\ HasTableText(tbl_spans) /\ MoreVerticalSpans /\ AnchorYs # {})
        => FullPageBox

\* a vertical-dominant page with a caption and kept rule segments
C22_Witness ==
    /\ tbl_pc = "done" /\ MoreVerticalSpans /\ AnchorYs # {}
    /\ LineCoordinates(tbl_drawings) # <<>> /\ FullPageBox

\* the page's kept rule segments
Segments ==
    LET lines == LineCoordinates(tbl_drawings)
    IN  {lines[k] : k \in DOMAIN lines}

\* the segments a band was merged from: those at most 2 units below its top
SegmentsOf(band) == {sg \in Segments : band.y0 <= sg.y0 /\ sg.y0 <= band.y0 + 2}

\* the bands group_table_elements handed on, of all anchors
GroupedBands ==
    UNION {{grouped_elements[k][q] : q \in DOMAIN grouped_elements[k]} :
              k \in DOMAIN grouped_elements}

\* each band spans its segments, from the least left edge to the greatest
\* right edge, at the height of its topmost segment
BandsSpanSegments ==
    \A band \in PageBands :
        /\ \E sg \in SegmentsOf(band) : sg.y0 = band.y0
        /\ \E sg \in SegmentsOf(band) : sg.x0 = band.x0
        /\ \E sg \in SegmentsOf(band) : sg.x1 = band.x1
        /\ \A sg \in SegmentsOf(band) : band.x0 <= sg.x0 /\ sg.x1 <= band.x1
        /\ band.y1 = band.y0

(* C24 as stated: group_table_elements merges the page's rule segments into
   bands so that any two segments whose vertical positions are within 2
   units of each other are in the same band, and each band spans the least
   left edge to the greatest right edge of its segments. *)
C24_BandsWithinTolerance ==
    tbl_pc = "grouped"
        => /\ \A sg, th \in Segments :
                 Abs(sg.y0 - th.y0) <= 2
                     => \E band \in PageBands : {sg, th} \subseteq SegmentsOf(band)
           /\ BandsSpanSegments
           /\ GroupedBands \subseteq PageBands

(* C24 amended: group_table_elements merges the page's rule segments into
   bands, each made of the segments at most 2 units below the band's topmost
   segment: every segment is in exactly one band, the tops of two bands are
   more than 2 units apart, and each band spans the least left edge to the
   greatest right edge of its segments. *)
C24_BandsFromTopSegment ==
    tbl_pc = "grouped"
        => /\ \A sg \in Segments :
                 Cardinality({band \in PageBands : sg \in SegmentsOf(band)}) = 1
           /\ \A band, other \in PageBands :
                 band # other => Abs(band.y0 - other.y0) > 2
           /\ BandsSpanSegments
           /\ GroupedBands \subseteq PageBands

\* a band below a caption merged from two segments, and a third segment
\* within 2 units of the second that starts the next band
C24_Witness ==
    /\ tbl_pc = "grouped"
    /\ \E band \in GroupedBands :
          /\ Cardinality(SegmentsOf(band)) = 2
          /\ \E sg \in SegmentsOf(band) : sg.x0 # band.x0
          /\ \E sg \in SegmentsOf(band), th \in Segments \ SegmentsOf(band) :
                Abs(sg.y0 - th.y0) <= 2

\* the band collection of the k-th anchor that has bands
BandsOfAnchor(k) == {grouped_elements[k][q] : q \in DOMAIN grouped_elements[k]}

\* the bands that open a group: those with no band of the collection at most
\* 3 units above them (the one before them in the sorted order is further)
GroupStarts(collection) ==
    {band \in collection :
        \A other \in collection : other.y0 < band.y0 => band.y0 - other.y0 > 3}

\* the band of the collection that opens its first (topmost) group
FirstGroupStart(collection) ==
    CHOOSE band \in GroupStarts(collection) :
        \A other \in GroupStarts(collection) : band.y0 <= other.y0

\* the band of the collection that opens its last (lowest) group
LastGroupStart(collection) ==
    CHOOSE band \in GroupStarts(collection) :
        \A other \in GroupStarts(collection) : band.y0 >= other.y0

(* C25: for each anchor's band collection, create_table_bounding_boxes
   groups consecutive bands, sorted by vertical then horizontal position,
   whose vertical positions differ by at most 3 units, and returns one box:
   its horizontal extent and its top are those of the band that opens the
   first group, its bottom is the vertical position of the band that opens
   the last group, and top <= bottom. *)
C25_BoxFromGroups ==
    (tbl_pc = "done" /\ ~tbl_result.none /\ ~IsFullPage)
        => /\ Len(tbl_result.items) = Len(grouped_elements)
           /\ \A k \in DOMAIN grouped_elements :
                 LET box == tbl_result.items[k]
                     first == FirstGroupStart(BandsOfAnchor(k))
                     last == LastGroupStart(BandsOfAnchor(k))
                 IN  /\ box.box
                     /\ box.x0 = first.x0 /\ box.x1 = first.x1
                     /\ box.y0 = first.y0 /\ box.y1 = last.y0
                     /\ box.y0 <= box.y1

\* a collection of three bands in two groups, the first group of two bands
\* of different extents: the box runs from the first band to the third
C25_Witness ==
    /\ tbl_pc = "done" /\ ~tbl_result.none /\ ~IsFullPage
    /\ \E k \in DOMAIN grouped_elements :
          /\ Cardinality(BandsOfAnchor(k)) = 3
          /\ Cardinality(GroupStarts(BandsOfAnchor(k))) = 2
          /\ tbl_result.items[k].y0 < tbl_result.items[k].y1
          /\ \E band \in BandsOfAnchor(k) : band.x0 < tbl_result.items[k].x0

(***************************************************************************)
(* geocode_location (services/geocoding.py), on one location.  The cache,  *)
(* Nominatim and Google are outside the program: each lookup finds the     *)
(* coordinates or not, and an HTTP request of Nominatim or Google may      *)
(* raise.  A local variable is <<>> while unassigned and <<v>> once bound. *)
(***************************************************************************)
FinalStatuses == {"Cache geocoded", "Nominatim geocoded", "Google geocoded"}

FailedStatuses ==
    {"Cache geocoding failed", "Nominatim geocoding failed", "Google geocoding failed"}

\* the values of geocoded_status: those the cascade writes and any other
GeocodedStatuses == FinalStatuses \cup FailedStatuses \cup {"Not geocoded"}

Locations ==
    {[location |-> n, id |-> i, geocoded_status |-> s] :
        n \in {"Braga", "Lisboa"}, i \in {1, 2}, s \in GeocodedStatuses}

GeoInit ==
    /\ geo_location \in Locations
    /\ geo_pc = "cache" /\ coordinates = <<>> /\ contacted = <<>>
    /\ patched = <<>> /\ geo_result = [kind |-> "none", value |-> "None"]

\* what a lookup yields: the coordinates, None, or an exception of requests
LookupOutcomes == {"found", "None"}
RequestOutcomes == {"found", "None", "HTTPError"}

\* patch_location_geocoding(coordinates, location_id, status)
Patch(found, status) ==
    [coordinates |-> found, location_id |-> geo_location.id, status |-> status]

\* the statuses that skip the first cache lookup (lines 63-67)
SkipsCache(status) == status \in FinalStatuses

\* line 72: the statuses that send the location to Nominatim
ToNominatim(status) == status \in {"Cache geocoding failed", "Cache geocoded"}

\* lines 79-82: the statuses that send the location to Google
ToGoogle(status) == status \in {"Nominatim geocoding failed", "Nominatim geocoded"}

GeoOnly ==
    UNCHANGED <<chunkVars, extractVars, pageVars, locVars, ctxVars, absVars, pipeVars,
                tblVars>>

\* lines 63-70: the cache is asked first, unless the status is final
GeoCache ==
    /\ geo_pc = "cache" /\ ~SkipsCache(geo_location.geocoded_status)
    /\ \E outcome \in LookupOutcomes :
          /\ coordinates' = <<outcome>>
          /\ patched' = IF outcome = "found"
                        THEN Append(patched, Patch(TRUE, "Cache geocoded"))
                        ELSE patched
    /\ contacted' = Append(contacted, "cache")
    /\ geo_pc' = "nominatim"
    /\ UNCHANGED <<geo_location, geo_result>>
    /\ GeoOnly

GeoCacheSkipped ==
    /\ geo_pc = "cache" /\ SkipsCache(geo_location.geocoded_status)
    /\ geo_pc' = "nominatim"
    /\ UNCHANGED <<geo_location, coordinates, contacted, patched, geo_result>>
    /\ GeoOnly

\* lines 72-77
GeoNominatim ==
    /\ geo_pc = "nominatim" /\ ToNominatim(geo_location.geocoded_status)
    /\ contacted' = Append(contacted, "nominatim")
    /\ \E outcome \in RequestOutcomes :
          IF outcome = "HTTPError"
          THEN /\ geo_result' = [kind |-> "HTTPError", value |-> "None"]
               /\ geo_pc' = "done"
               /\ UNCHANGED <<coordinates, patched>>
          ELSE /\ coordinates' = <<outcome>>
               /\ patched' =
                      Append(patched,
                             IF outcome = "found"
                             THEN Patch(TRUE, "Nominatim geocoded")
                             ELSE Patch(FALSE, "Nominatim geocoding failed"))
               /\ geo_pc' = "google"
               /\ UNCHANGED geo_result
    /\ UNCHANGED geo_location
    /\ GeoOnly

GeoNominatimSkipped ==
    /\ geo_pc = "nominatim" /\ ~ToNominatim(geo_location.geocoded_status)
    /\ geo_pc' = "google"
    /\ UNCHANGED <<geo_location, coordinates, contacted, patched, geo_result>>
    /\ GeoOnly

\* lines 79-87
GeoGoogle ==
    /\ geo_pc = "google" /\ ToGoogle(geo_location.geocoded_status)
    /\ contacted' = Append(contacted, "google")
    /\ \E outcome \in RequestOutcomes :
          IF outcome = "HTTPError"
          THEN /\ geo_result' = [kind |-> "HTTPError", value |-> "None"]
               /\ geo_pc' = "done"
               /\ UNCHANGED <<coordinates, patched>>
          ELSE /\ coordinates' = <<outcome>>
               /\ patched' =
                      Append(patched,
                             IF outcome = "found"
                             THEN Patch(TRUE, "Google geocoded")
                             ELSE Patch(FALSE, "Google geocoding failed"))
               /\ geo_pc' = "cache_again"
               /\ UNCHANGED geo_result
    /\ UNCHANGED geo_location
    /\ GeoOnly

GeoGoogleSkipped ==
    /\ geo_pc = "google" /\ ~ToGoogle(geo_location.geocoded_status)
    /\ geo_pc' = "cache_again"
    /\ UNCHANGED <<geo_location, coordinates, contacted, patched, geo_result>>
    /\ GeoOnly

\* lines 89-94: after a failure of Google the cache is asked once more
GeoCacheAgain ==
    /\ geo_pc = "cache_again"
    /\ geo_location.geocoded_status = "Google geocoding failed"
    /\ contacted' = Append(contacted, "cache")
    /\ \E outcome \in LookupOutcomes :
          /\ coordinates' = <<outcome>>
          /\ IF outcome = "found"
             THEN /\ patched' = Append(patched, Patch(TRUE, "Cache geocoded"))
                  /\ geo_pc' = "return"
                  /\ UNCHANGED geo_result
             ELSE /\ geo_result' = [kind |-> "returned",
                                    value |-> "No geocoding found"]
                  /\ geo_pc' = "done"
                  /\ UNCHANGED patched
    /\ UNCHANGED geo_location
    /\ GeoOnly

GeoCacheAgainSkipped ==
    /\ geo_pc = "cache_again"
    /\ geo_location.geocoded_status # "Google geocoding failed"
    /\ geo_pc' = "return"
    /\ UNCHANGED <<geo_location, coordinates, contacted, patched, geo_result>>
    /\ GeoOnly

\* lines 95-96: "if coordinates: return coordinates", else None
GeoReturn ==
    /\ geo_pc = "return" /\ coordinates # <<>>
    /\ geo_result' = [kind |-> "returned", value |-> coordinates[1]]
    /\ geo_pc' = "done"
    /\ UNCHANGED <<geo_location, coordinates, contacted, patched>>
    /\ GeoOnly

\* line 95 reads coordinates, which no branch has bound
GeoUnbound ==
    /\ geo_pc = "return" /\ coordinates = <<>>
    /\ geo_result' = [kind |-> "UnboundLocalError", value |-> "None"]
    /\ geo_pc' = "done"
    /\ UNCHANGED <<geo_location, coordinates, contacted, patched>>
    /\ GeoOnly

GeoNext ==
    \/ GeoCache
    \/ GeoCacheSkipped
    \/ GeoNominatim
    \/ GeoNominatimSkipped
    \/ GeoGoogle
    \/ GeoGoogleSkipped
    \/ GeoCacheAgain
    \/ GeoCacheAgainSkipped
    \/ GeoReturn
    \/ GeoUnbound

SpecGeoInit ==
    /\ ChunkIdle /\ ExtractIdle /\ PageIdle /\ LocIdle /\ CtxIdle /\ AbsIdle
    /\ PipeIdle /\ TblIdle /\ GeoInit
SpecGeo == SpecGeoInit /\ [][GeoNext]_vars

\* the providers the call contacted
Contacted == {contacted[k] : k \in DOMAIN contacted}

\* a later provider is contacted only on a status that records the stage
\* before it
CascadeOrder ==
    /\ "nominatim" \in Contacted
          => geo_location.geocoded_status \in {"Cache geocoding failed", "Cache geocoded"}
    /\ "google" \in Contacted
          => geo_location.geocoded_status
                 \in {"Nominatim geocoding failed", "Nominatim geocoded"}

(* C30: for every value of geocoded_status, the final ones included,
   geocode_location completes without reading an unassigned result
   variable, and it contacts Nominatim or Google only when the status passed
   in records that the stage before it has been tried. *)
C30_CascadeCompletes ==
    /\ geo_pc = "done" => geo_result.kind # "UnboundLocalError"
    /\ CascadeOrder

(* For every status but "Google geocoded" the result variable is bound when
   it is read, and the cascade order holds for every status. *)
C30_CascadeCompletesUnlessGoogleGeocoded ==
    /\ (geo_pc = "done" /\ geo_location.geocoded_status # "Google geocoded")
          => geo_result.kind # "UnboundLocalError"
    /\ CascadeOrder

====
